---- MODULE Spec2Model ----
(***************************************************************************)
(* chatshield-backend: the mute service (app/services/mute.py), the        *)
(* connection manager (app/websocket/manager.py) and the websocket session *)
(* (app/websocket/handlers.py).                                            *)
(*                                                                         *)
(* asyncio runs one task at a time and switches tasks only at an await, so *)
(* every action below is the code between two awaits of one task.  Each    *)
(* service call opens a database session of its own; a session reads the   *)
(* committed rows and its UPDATE writes only the columns it changed.       *)
(***************************************************************************)
EXTENDS Integers, Sequences, FiniteSets, TLC

(* ------------------------------ constants ------------------------------ *)

TOXIC_THRESHOLD == 5
MUTE_DURATION_MINUTES == 5

\* timedelta(minutes=MUTE_DURATION_MINUTES) in seconds
MuteSeconds == MUTE_DURATION_MINUTES * 60

\* Python's None for a nullable DateTime column
None == 0 - 1

(* ------------------------------- bounds -------------------------------- *)

\* service calls started by the direct callers of a behaviour
MaxCalls == 6
\* service calls started by interleaving callers of a behaviour
MaxConcCalls == 4
\* clock advances of a behaviour
MaxTicks == 2
\* the clock advances by a mute duration at a time, so that a check can fall
\* before, exactly at and after mute_expires_at
TickSeconds == MuteSeconds

\* broadcast_to_room calls started by the direct callers of a behaviour
MaxBroadcasts == 2
\* payloads the connected clients send in a behaviour
MaxPayloads == 2
\* clients that go away, and clock advances, in a behaviour of the sessions
MaxDrops == 1
MaxLoopTicks == 1
\* unmute_user calls made while the sessions run
MaxUnmutes == 1
\* clients that go away in a behaviour of sessions that only leave
MaxLeaves == 2
\* service calls on one key made by callers that overtake one another
MaxStaleCalls == 5

Users == {"alice", "bob"}
Rooms == {"general", "lobby"}
\* tasks that call the services and the manager directly
Tasks == {"t1", "t2"}
\* websocket connections; each has the task that runs websocket_endpoint
Conns == {"w1", "w2", "w3"}
Procs == Tasks \cup Conns
Keys == Users \X Rooms

\* Where a connection sits in the hash table of a room's set: iterating the
\* set visits its members in this order.
Slot == [c \in Conns |-> CASE c = "w1" -> 1 [] c = "w2" -> 2 [] OTHER -> 3]

\* The direct callers of the service act on one key (two connections of one
\* user in one room, the REST routes on that user), and that key's row is
\* the one the initial table may hold.
CallKeys == {<<"alice", "general">>}
\* in the one-call-at-a-time specification one task makes every call
SeqTasks == {"t1"}

(* ------------------------------- state --------------------------------- *)

VARIABLES
    user_mutes,   \* the user_mutes table: a sequence of rows, row id = index
    now,          \* datetime.utcnow(), in seconds
    call,         \* per task: the service call it is in, and where
    ncalls,       \* calls started by direct callers
    rec0,         \* history: each key's record in the initial state
    run,          \* history: per key, the process_message_toxicity calls
                  \* completed since the last other call on the key
    checks,       \* history: per key, the check_mute_status calls completed
                  \* since the last mute was triggered
    stats,        \* history: per key, counts of completed calls
    manager,      \* the ConnectionManager: active_connections, rooms,
                  \* connection_usernames
    ws,           \* per connection: its transport, "new", "open" or "closed"
    inbox,        \* history: per connection, the events it has been sent
                  \* of those whose order of issue is recorded (seq > 0)
    bc,           \* per task: the broadcast_to_room call it is in, and where
    nev,          \* broadcasts started by direct callers
    sess,         \* per connection: where its websocket_endpoint task is
    trace,        \* history: per connection, what the loop body has done
                  \* for the payload it is handling
    npay,         \* payloads received
    http,         \* per task: the REST request it is serving, and where
    store         \* the rooms and user_rooms tables: each durable room with
                  \* its creator, and the (user, room) memberships

vars == <<user_mutes, now, call, ncalls, rec0, run, checks, stats,
          manager, ws, inbox, bc, nev, sess, trace, npay, http, store>>

\* what the mute service leaves alone
otherVars == <<manager, ws, inbox, bc, nev, sess, trace, npay, http, store>>

(* --------------------------- the UserMute row -------------------------- *)

Columns ==
    {"warning_count", "consecutive_toxic_count", "is_muted", "muted_at",
     "mute_expires_at", "total_mute_count"}

\* UserMute(user_id=..., room_id=..., warning_count=0, ...)
NewUserMute(u, r) ==
    [user |-> u, room |-> r,
     warning_count |-> 0, consecutive_toxic_count |-> 0,
     is_muted |-> FALSE, muted_at |-> None, mute_expires_at |-> None,
     total_mute_count |-> 0]

\* select(UserMute).where(user_id == user.id, room_id == room_id): row ids
\* mutant: the select of the UserMute row without its room_id condition
SelectUserMute_AnyRoom(tbl, u, r) ==
    {i \in DOMAIN tbl : tbl[i].user = u}

SelectUserMute(tbl, u, r) ==
    {i \in DOMAIN tbl : tbl[i].user = u /\ tbl[i].room = r}

MinOf(S) == CHOOSE x \in S : \A y \in S : x <= y

\* The record of a key as a reader of the table sees it: the defaults when
\* there is no row (as check_mute_status and get_user_stats report them).
Rec(u, r) ==
    LET ids == SelectUserMute(user_mutes, u, r)
    IN  IF ids = {} THEN NewUserMute(u, r) ELSE user_mutes[MinOf(ids)]

\* session.commit() of a loaded object: the UPDATE sets the columns whose
\* value differs from the loaded one; session.add + commit of a new object
\* inserts it.  id = 0 stands for an object not yet in the table.
Flush(tbl, id, loaded, obj) ==
    IF id = 0
    THEN Append(tbl, obj)
    ELSE [tbl EXCEPT ![id] =
            [f \in DOMAIN @ |->
                IF f \in Columns /\ obj[f] # loaded[f] THEN obj[f] ELSE @[f]]]

\* max(0, int((mute_expires_at - now).total_seconds())) or None
RemainingSeconds(obj, t) ==
    IF obj.is_muted /\ obj.mute_expires_at # None
    THEN (IF obj.mute_expires_at - t > 0 THEN obj.mute_expires_at - t ELSE 0)
    ELSE None

(* -------------------- process_message_toxicity body -------------------- *)

\* mutant: the threshold test is > where the code has >=
ProcessBody_StrictThreshold(obj, is_toxic, t) ==
    IF is_toxic
    THEN LET o1 == [obj EXCEPT !.consecutive_toxic_count = @ + 1,
                               !.warning_count = @ + 1]
         IN  IF o1.consecutive_toxic_count > TOXIC_THRESHOLD
             THEN [obj |-> [o1 EXCEPT !.is_muted = TRUE,
                                      !.muted_at = t,
                                      !.mute_expires_at = t + MuteSeconds,
                                      !.total_mute_count = @ + 1,
                                      !.consecutive_toxic_count = 0],
                   action |-> "muted"]
             ELSE [obj |-> o1, action |-> "warning"]
    ELSE [obj |-> obj, action |-> "none"]

\* mutant: a non-toxic message resets the consecutive count (the policy the
\* class docstring describes and the code does not implement)
ProcessBody_ResetOnClean(obj, is_toxic, t) ==
    IF is_toxic
    THEN LET o1 == [obj EXCEPT !.consecutive_toxic_count = @ + 1,
                               !.warning_count = @ + 1]
         IN  IF o1.consecutive_toxic_count >= TOXIC_THRESHOLD
             THEN [obj |-> [o1 EXCEPT !.is_muted = TRUE,
                                      !.muted_at = t,
                                      !.mute_expires_at = t + MuteSeconds,
                                      !.total_mute_count = @ + 1,
                                      !.consecutive_toxic_count = 0],
                   action |-> "muted"]
             ELSE [obj |-> o1, action |-> "warning"]
    ELSE [obj |-> [obj EXCEPT !.consecutive_toxic_count = 0],
          action |-> "none"]

\* mute.py 265-295: the synchronous part between the select and the commit
ProcessBody(obj, is_toxic, t) ==
    IF is_toxic
    THEN LET o1 == [obj EXCEPT !.consecutive_toxic_count = @ + 1,
                               !.warning_count = @ + 1]
         IN  IF o1.consecutive_toxic_count >= TOXIC_THRESHOLD
             THEN [obj |-> [o1 EXCEPT !.is_muted = TRUE,
                                      !.muted_at = t,
                                      !.mute_expires_at = t + MuteSeconds,
                                      !.total_mute_count = @ + 1,
                                      !.consecutive_toxic_count = 0],
                   action |-> "muted"]
             ELSE [obj |-> o1, action |-> "warning"]
    ELSE [obj |-> obj, action |-> "none"]

\* mutant: the expiry test is > where the code has >=
CheckBody_StrictExpiry(obj, t) ==
    IF obj.is_muted /\ obj.mute_expires_at # None /\ t > obj.mute_expires_at
    THEN [obj |-> [obj EXCEPT !.is_muted = FALSE,
                              !.muted_at = None,
                              !.mute_expires_at = None,
                              !.consecutive_toxic_count = 0],
          just_unmuted |-> TRUE]
    ELSE [obj |-> obj, just_unmuted |-> FALSE]

\* mute.py 161-173: the auto-unmute decision of check_mute_status
CheckBody(obj, t) ==
    IF obj.is_muted /\ obj.mute_expires_at # None /\ t >= obj.mute_expires_at
    THEN [obj |-> [obj EXCEPT !.is_muted = FALSE,
                              !.muted_at = None,
                              !.mute_expires_at = None,
                              !.consecutive_toxic_count = 0],
          just_unmuted |-> TRUE]
    ELSE [obj |-> obj, just_unmuted |-> FALSE]

\* mute.py 495-499: unmute_user's assignments
UnmuteBody(obj) ==
    [obj EXCEPT !.is_muted = FALSE,
                !.muted_at = None,
                !.mute_expires_at = None,
                !.consecutive_toxic_count = 0]

(* ------------------------------ results -------------------------------- *)

\* mute.py 309-319
ProcessResult(action, obj, t) ==
    [op |-> "process", action |-> action, error |-> FALSE,
     warning_count |-> obj.warning_count,
     consecutive_toxic_count |-> obj.consecutive_toxic_count,
     total_mute_count |-> obj.total_mute_count,
     mute_expires_at |-> obj.mute_expires_at,
     remaining_seconds |-> RemainingSeconds(obj, t),
     warnings_until_mute |-> TOXIC_THRESHOLD - obj.consecutive_toxic_count]

\* mute.py 240, 324: {"action": "none", "error": ...}
ProcessError ==
    [op |-> "process", action |-> "none", error |-> TRUE,
     warning_count |-> 0, consecutive_toxic_count |-> 0,
     total_mute_count |-> 0, mute_expires_at |-> None,
     remaining_seconds |-> None, warnings_until_mute |-> 0]

\* mute.py 182-190
CheckResult(obj, t, just) ==
    [op |-> "check", is_muted |-> obj.is_muted,
     mute_expires_at |-> obj.mute_expires_at,
     remaining_seconds |-> RemainingSeconds(obj, t),
     warning_count |-> obj.warning_count,
     consecutive_toxic_count |-> obj.consecutive_toxic_count,
     total_mute_count |-> obj.total_mute_count,
     just_unmuted |-> just]

\* mute.py 129-137, 151-159, 194-202: no user, no row, or an exception
CheckDefault ==
    [op |-> "check", is_muted |-> FALSE, mute_expires_at |-> None,
     remaining_seconds |-> None, warning_count |-> 0,
     consecutive_toxic_count |-> 0, total_mute_count |-> 0,
     just_unmuted |-> FALSE]

UnmuteResult(ok) == [op |-> "unmute", ok |-> ok]

(* --------------------------- service calls ----------------------------- *)

NoObj == NewUserMute("", "")

\* A request of routes/chat.py: the route's arguments, the user the token
\* resolved to, where the route is, and the status of its response.
NoRequest ==
    [pc |-> "idle", route |-> "", caller |-> "", room_id |-> "",
     username |-> "", message_id |-> 0, status |-> 0]

\* seen is history: the payloads the sessions had received when an
\* unmute_user call returned
IdleCall ==
    [pc |-> "idle", user |-> "", room |-> "", is_toxic |-> FALSE, id |-> 0,
     loaded |-> NoObj, obj |-> NoObj, now |-> 0, action |-> "none",
     result |-> UnmuteResult(FALSE), seen |-> 0]

Idle(t) == call[t].pc = "idle"


Key(c) == <<c.user, c.room>>

\* async with AsyncSessionLocal() as session: ... up to the first await
Begin(t, pc0, u, r, toxic) ==
    call' = [call EXCEPT ![t] =
                [IdleCall EXCEPT !.pc = pc0, !.user = u, !.room = r,
                                 !.is_toxic = toxic]]

Finish(t, res) ==
    call' = [call EXCEPT ![t].pc = "done", ![t].result = res]

\* history of a completed process_message_toxicity call
NoteProcess(c, pre, post, action) ==
    /\ run' = [run EXCEPT ![Key(c)] =
                  Append(@, [toxic |-> c.is_toxic, action |-> action,
                             now |-> c.now, pre |-> pre, post |-> post])]
    /\ stats' = [stats EXCEPT ![Key(c)].toxic =
                                  @ + (IF c.is_toxic THEN 1 ELSE 0),
                              ![Key(c)].calm =
                                  @ + (IF c.is_toxic THEN 0 ELSE 1),
                              ![Key(c)].muted =
                                  @ + (IF action = "muted" THEN 1 ELSE 0)]

\* history of a completed check_mute_status call
NoteCheck(c, t, pre, post, res) ==
    /\ checks' = [checks EXCEPT ![Key(c)] =
                     Append(@, [now |-> t, pre |-> pre, post |-> post,
                                is_muted |-> res.is_muted,
                                just_unmuted |-> res.just_unmuted])]
    /\ run' = [run EXCEPT ![Key(c)] = <<>>]
    /\ stats' = [stats EXCEPT ![Key(c)].unmutes =
                                  @ + (IF res.just_unmuted THEN 1 ELSE 0)]

(* mute.py 230-324: process_message_toxicity *)

\* 233-297: both selects and the synchronous code up to `await commit`
PSelect(t) ==
    LET c == call[t]
        ids == SelectUserMute(user_mutes, c.user, c.room)
    IN  /\ c.pc = "p_select"
        /\ IF c.user \notin Users \/ Cardinality(ids) > 1
           THEN \* user not found, or scalar_one_or_none raises
                \* MultipleResultsFound: rollback, {"action": "none", ...}
                /\ Finish(t, ProcessError)
                /\ NoteProcess(c, Rec(c.user, c.room), Rec(c.user, c.room),
                               "none")
                /\ UNCHANGED checks
           ELSE LET id == IF ids = {} THEN 0 ELSE MinOf(ids)
                    loaded == IF ids = {} THEN NewUserMute(c.user, c.room)
                              ELSE user_mutes[id]
                    body == ProcessBody(loaded, c.is_toxic, now)
                IN  /\ call' = [call EXCEPT ![t].pc = "p_commit",
                                            ![t].id = id,
                                            ![t].loaded = loaded,
                                            ![t].obj = body.obj,
                                            ![t].now = now,
                                            ![t].action = body.action]
                    /\ UNCHANGED <<run, checks, stats>>
        /\ UNCHANGED <<user_mutes, now, ncalls, rec0, otherVars>>

\* 297: await session.commit()
PCommit(t) ==
    LET c == call[t]
    IN  /\ c.pc = "p_commit"
        /\ user_mutes' = Flush(user_mutes, c.id, c.loaded, c.obj)
        /\ call' = [call EXCEPT ![t].pc = "p_refresh",
                                ![t].id = IF c.id = 0 THEN Len(user_mutes) + 1
                                          ELSE c.id]
        /\ checks' = IF c.action = "muted"
                     THEN [checks EXCEPT ![Key(c)] = <<>>] ELSE checks
        /\ UNCHANGED <<now, ncalls, rec0, otherVars, run, stats>>

\* 298-319: await session.refresh(user_mute), then the result
PRefresh(t) ==
    LET c == call[t]
        fresh == user_mutes[c.id]
    IN  /\ c.pc = "p_refresh"
        /\ call' = [call EXCEPT ![t].pc = "done", ![t].obj = fresh,
                                ![t].result =
                                    ProcessResult(c.action, fresh, c.now)]
        /\ NoteProcess(c, c.loaded, fresh, c.action)
        /\ UNCHANGED <<user_mutes, now, ncalls, rec0, otherVars, checks>>

(* mute.py 120-202: check_mute_status *)

\* 123-172: both selects and the synchronous code up to `await commit`,
\* or up to the return when nothing is to be written
CSelect(t) ==
    LET c == call[t]
        ids == SelectUserMute(user_mutes, c.user, c.room)
    IN  /\ c.pc = "c_select"
        /\ IF c.user \notin Users \/ Cardinality(ids) # 1
           THEN \* no user, no row, or MultipleResultsFound caught at 192
                /\ Finish(t, CheckDefault)
                /\ NoteCheck(c, now, Rec(c.user, c.room),
                             Rec(c.user, c.room), CheckDefault)
           ELSE LET id == MinOf(ids)
                    body == CheckBody(user_mutes[id], now)
                IN  IF body.just_unmuted
                    THEN /\ call' = [call EXCEPT ![t].pc = "c_commit",
                                                 ![t].id = id,
                                                 ![t].loaded = user_mutes[id],
                                                 ![t].obj = body.obj,
                                                 ![t].now = now]
                         /\ UNCHANGED <<run, checks, stats>>
                    ELSE /\ Finish(t, CheckResult(body.obj, now, FALSE))
                         /\ NoteCheck(c, now, user_mutes[id], user_mutes[id],
                                      CheckResult(body.obj, now, FALSE))
        /\ UNCHANGED <<user_mutes, now, ncalls, rec0, otherVars>>

\* 172-190: await session.commit(), just_unmuted = True, the result
CCommit(t) ==
    LET c == call[t]
        res == CheckResult(c.obj, c.now, TRUE)
    IN  /\ c.pc = "c_commit"
        /\ user_mutes' = Flush(user_mutes, c.id, c.loaded, c.obj)
        /\ Finish(t, res)
        /\ NoteCheck(c, c.now, c.loaded, user_mutes'[c.id], res)
        /\ UNCHANGED <<now, ncalls, rec0, otherVars>>

(* mute.py 469-508: unmute_user *)

FinishUnmute(t, ok) ==
    call' = [call EXCEPT ![t].pc = "done", ![t].result = UnmuteResult(ok),
                         ![t].seen = npay]

NoteUnmute(c, ok) ==
    /\ run' = [run EXCEPT ![Key(c)] = <<>>]
    /\ stats' = [stats EXCEPT ![Key(c)].unmutes = @ + (IF ok THEN 1 ELSE 0)]
    /\ UNCHANGED checks

\* 472-499: both selects and the synchronous code up to `await commit`
USelect(t) ==
    LET c == call[t]
        ids == SelectUserMute(user_mutes, c.user, c.room)
    IN  /\ c.pc = "u_select"
        /\ IF c.user \notin Users \/ Cardinality(ids) # 1
           THEN \* no user, no row, or MultipleResultsFound caught at 505
                FinishUnmute(t, FALSE) /\ NoteUnmute(c, FALSE)
           ELSE LET id == MinOf(ids)
                IN  IF ~ user_mutes[id].is_muted
                    THEN FinishUnmute(t, FALSE) /\ NoteUnmute(c, FALSE)
                    ELSE /\ call' = [call EXCEPT ![t].pc = "u_commit",
                                         ![t].id = id,
                                         ![t].loaded = user_mutes[id],
                                         ![t].obj = UnmuteBody(user_mutes[id]),
                                         ![t].now = now]
                         /\ UNCHANGED <<run, checks, stats>>
        /\ UNCHANGED <<user_mutes, now, ncalls, rec0, otherVars>>

\* 500-503: await session.commit(), return True
UCommit(t) ==
    LET c == call[t]
    IN  /\ c.pc = "u_commit"
        /\ user_mutes' = Flush(user_mutes, c.id, c.loaded, c.obj)
        /\ FinishUnmute(t, TRUE)
        /\ NoteUnmute(c, TRUE)
        /\ UNCHANGED <<now, ncalls, rec0, otherVars>>

(* ----------------------- callers of the service ------------------------ *)

CallProcess(t, u, r, toxic) ==
    /\ call[t].pc \in {"idle", "done"}
    /\ Begin(t, "p_select", u, r, toxic)
    /\ ncalls' = ncalls + 1
    /\ UNCHANGED <<user_mutes, now, rec0, otherVars, run, checks, stats>>

CallCheck(t, u, r) ==
    /\ call[t].pc \in {"idle", "done"}
    /\ Begin(t, "c_select", u, r, FALSE)
    /\ ncalls' = ncalls + 1
    /\ UNCHANGED <<user_mutes, now, rec0, otherVars, run, checks, stats>>

CallUnmute(t, u, r) ==
    /\ call[t].pc \in {"idle", "done"}
    /\ Begin(t, "u_select", u, r, FALSE)
    /\ ncalls' = ncalls + 1
    /\ UNCHANGED <<user_mutes, now, rec0, otherVars, run, checks, stats>>

\* the wall clock
Tick ==
    /\ now < MaxTicks * TickSeconds
    /\ now' = now + TickSeconds
    /\ UNCHANGED <<user_mutes, call, ncalls, rec0, otherVars, run, checks,
                   stats>>

(* --------------------- the durable rooms (chat.py) --------------------- *)

\* Room.creator_id of a room that get_or_create_room made
NoCreator == ""

\* the rooms created through POST /rooms, each with the user that created it
RoomCreator == [r \in {"general"} |-> "bob"]

\* the tables of a started process: no membership yet
NewStore == [rooms |-> RoomCreator, user_rooms |-> {}, messages |-> {}]

\* chat.py 39-60: get_or_create_room
GetOrCreateRoom(st, room_id) ==
    IF room_id \in DOMAIN st.rooms THEN st
    ELSE [st EXCEPT !.rooms =
             [r \in DOMAIN @ \cup {room_id} |->
                 IF r = room_id THEN NoCreator ELSE @[r]]]

\* chat.py 181-233: join_room's insert into user_rooms
JoinRoom(st, username, room_id) ==
    [st EXCEPT !.user_rooms = @ \cup {<<username, room_id>>}]

(* ------------------- ConnectionManager (manager.py) -------------------- *)

Range(s) == {s[i] : i \in DOMAIN s}

\* d[k] = v on a dict
MapPut(f, k, v) == [x \in DOMAIN f \cup {k} |-> IF x = k THEN v ELSE f[x]]

\* del d[k], d.pop(k, default)
MapDel(f, k) == [x \in DOMAIN f \ {k} |-> f[x]]

\* list.remove(x): the first occurrence goes
RemoveFirst(s, x) ==
    IF x \notin Range(s) THEN s
    ELSE LET i == MinOf({n \in DOMAIN s : s[n] = x})
         IN  SubSeq(s, 1, i - 1) \o SubSeq(s, i + 1, Len(s))

\* manager.py 23-29: __init__
NewManager ==
    [active_connections |-> <<>>,
     rooms |-> [r \in {} |-> {}],
     connection_usernames |-> [c \in {} |-> ""]]

\* manager.py 45-51: connect, after its two awaits
Connect(m, websocket, username, room_id) ==
    [active_connections |-> Append(m.active_connections, websocket),
     connection_usernames |->
         MapPut(m.connection_usernames, websocket, username),
     rooms |->
         MapPut(m.rooms, room_id,
                (IF room_id \in DOMAIN m.rooms THEN m.rooms[room_id] ELSE {})
                    \cup {websocket})]

\* mutant: the clean-up of broadcast_all, which takes the connection out of
\* active_connections only
Disconnect_ListOnly(m, websocket, room_id) ==
    [m |-> [m EXCEPT !.active_connections = RemoveFirst(@, websocket)],
     username |-> IF websocket \in DOMAIN m.connection_usernames
                  THEN m.connection_usernames[websocket] ELSE "Unknown"]

\* mutant: disconnect without lines 72-73, which delete the emptied room
Disconnect_KeepEmpty(m, websocket, room_id) ==
    LET inroom == room_id \in DOMAIN m.rooms /\ websocket \in m.rooms[room_id]
    IN  [m |-> [active_connections |->
                    RemoveFirst(m.active_connections, websocket),
                connection_usernames |->
                    MapDel(m.connection_usernames, websocket),
                rooms |->
                    IF ~ inroom THEN m.rooms
                    ELSE [m.rooms EXCEPT ![room_id] = @ \ {websocket}]],
         username |-> IF websocket \in DOMAIN m.connection_usernames
                      THEN m.connection_usernames[websocket] ELSE "Unknown"]

\* manager.py 55-77: disconnect; the manager it leaves and what it returns
Disconnect(m, websocket, room_id) ==
    LET inroom == room_id \in DOMAIN m.rooms /\ websocket \in m.rooms[room_id]
        left == IF inroom THEN m.rooms[room_id] \ {websocket} ELSE {}
    IN  [m |-> [active_connections |->
                    RemoveFirst(m.active_connections, websocket),
                connection_usernames |->
                    MapDel(m.connection_usernames, websocket),
                rooms |->
                    IF ~ inroom THEN m.rooms
                    ELSE IF left = {} THEN MapDel(m.rooms, room_id)
                    ELSE [m.rooms EXCEPT ![room_id] = left]],
         username |-> IF websocket \in DOMAIN m.connection_usernames
                      THEN m.connection_usernames[websocket] ELSE "Unknown"]

\* manager.py 121-122: for conn in disconnected: self.disconnect(conn, room_id)
RECURSIVE DisconnectAll(_, _, _)
DisconnectAll(m, disconnected, room_id) ==
    IF disconnected = <<>> THEN m
    ELSE DisconnectAll(Disconnect(m, Head(disconnected), room_id).m,
                       Tail(disconnected), room_id)

\* the members of a set in the order an iteration visits them
RECURSIVE InSlotOrder(_)
InSlotOrder(S) ==
    IF S = {} THEN <<>>
    ELSE LET c == CHOOSE x \in S : \A y \in S : Slot[x] <= Slot[y]
         IN  <<c>> \o InSlotOrder(S \ {c})

\* manager.py 144-160: get_room_users
GetRoomUsers(m, room_id) ==
    IF room_id \notin DOMAIN m.rooms THEN <<>>
    ELSE LET members == InSlotOrder(m.rooms[room_id])
         IN  [i \in DOMAIN members |->
                 IF members[i] \in DOMAIN m.connection_usernames
                 THEN m.connection_usernames[members[i]] ELSE "Unknown"]

\* the members of a room, none when it has no key
RoomsMembers(m, room_id) ==
    IF room_id \in DOMAIN m.rooms THEN m.rooms[room_id] ELSE {}

\* the rooms a connection is a member of
RoomsOf(m, c) == {r \in DOMAIN m.rooms : c \in m.rooms[r]}

Registered(m, c) ==
    \/ c \in Range(m.active_connections)
    \/ c \in DOMAIN m.connection_usernames
    \/ RoomsOf(m, c) # {}

\* a message dict; seq is its place in the order of issue when a direct
\* caller of broadcast_to_room issued it, and 0 otherwise
Event(type, sender, room_id, seq) ==
    [type |-> type, sender |-> sender, room_id |-> room_id, seq |-> seq]

(* manager.py 89-122: broadcast_to_room *)

\* The call of a task: the set iterator of the for loop (the size of the set
\* when the loop began, the slot it has reached, whether the room's key has
\* been deleted since, which leaves the iterator on an emptied set), the
\* local list disconnected, and as history the members at the start, those
\* of them that have been members ever since, and those sent the event.
NoBroadcast ==
    [pc |-> "idle", room_id |-> "", ev |-> Event("", "", "", 0),
     size0 |-> 0, pos |-> 0, orphan |-> FALSE, disconnected |-> <<>>,
     members0 |-> {}, stayed |-> {}, delivered |-> {}]

InFlight(t) == bc[t].pc = "await"

\* What a change of the manager from m to m2 means to the loops under way:
\* `del self.rooms[room_id]` leaves them on the emptied set.
Track(bcs, m, m2) ==
    [t \in DOMAIN bcs |->
        IF bcs[t].pc # "await" THEN bcs[t]
        ELSE LET r == bcs[t].room_id
                 gone == r \in DOMAIN m.rooms /\ r \notin DOMAIN m2.rooms
             IN  [bcs[t] EXCEPT
                     !.orphan = @ \/ gone,
                     !.stayed = IF r \in DOMAIN m2.rooms
                                THEN @ \cap m2.rooms[r] ELSE {}]]

\* 101-122: one turn of `for connection in self.rooms[room_id]`: next() on
\* the set iterator, which raises RuntimeError (Set changed size during
\* iteration) when the set has another size than at the start; then
\* send_json up to its await, or, the set exhausted, the clean-up loop.
Iterate(t, b, m, bcs) ==
    LET S == IF b.orphan THEN {} ELSE m.rooms[b.room_id]
        ahead == {c \in S : Slot[c] > b.pos}
    IN  IF Cardinality(S) # b.size0
        THEN /\ bc' = [bcs EXCEPT ![t] = [b EXCEPT !.pc = "raised"]]
             /\ manager' = m
             /\ UNCHANGED inbox
        ELSE IF ahead = {}
        THEN LET m2 == DisconnectAll(m, b.disconnected, b.room_id)
             IN  /\ manager' = m2
                 /\ bc' = Track([bcs EXCEPT ![t] = [b EXCEPT !.pc = "done"]],
                                m, m2)
                 /\ UNCHANGED inbox
        ELSE LET c == CHOOSE x \in ahead : \A y \in ahead : Slot[x] <= Slot[y]
                 ok == ws[c] = "open"
             IN  /\ manager' = m
                 /\ bc' = [bcs EXCEPT ![t] =
                              [b EXCEPT !.pc = "await", !.pos = Slot[c],
                                        !.delivered =
                                            IF ok THEN @ \cup {c} ELSE @,
                                        !.disconnected =
                                            IF ok THEN @ ELSE Append(@, c)]]
                 /\ inbox' = IF ok /\ b.ev.seq > 0
                             THEN [inbox EXCEPT ![c] = Append(@, b.ev)]
                             ELSE inbox

\* 97-103: the call up to its first await, on the manager m
StartBroadcast(t, room_id, ev, m, bcs) ==
    IF room_id \notin DOMAIN m.rooms
    THEN /\ bc' = [bcs EXCEPT ![t] =
                      [NoBroadcast EXCEPT !.pc = "done", !.room_id = room_id,
                                          !.ev = ev]]
         /\ manager' = m
         /\ UNCHANGED inbox
    ELSE Iterate(t, [NoBroadcast EXCEPT !.pc = "await", !.room_id = room_id,
                                        !.ev = ev,
                                        !.size0 = Cardinality(m.rooms[room_id]),
                                        !.members0 = m.rooms[room_id],
                                        !.stayed = m.rooms[room_id]],
                 m, bcs)

\* a broadcast resumes from the await of a send_json
BResume(t) ==
    /\ InFlight(t)
    /\ Iterate(t, bc[t], manager, bc)
    /\ UNCHANGED <<user_mutes, now, call, ncalls, rec0, http, store, run,
                   checks, stats, ws, nev, sess, trace, npay>>

(* direct callers of the manager *)

\* manager.connect: accept() opens the transport
MConnect(c, username, room_id) ==
    /\ ws[c] = "new"
    /\ ws' = [ws EXCEPT ![c] = "open"]
    /\ store' = GetOrCreateRoom(store, room_id)
    /\ manager' = Connect(manager, c, username, room_id)
    /\ bc' = Track(bc, manager, manager')
    /\ UNCHANGED <<user_mutes, now, call, ncalls, rec0, http, run, checks,
                   stats, inbox, nev, sess, trace, npay>>

\* manager.disconnect, with the room the connection is in as its callers
\* pass it, or on a connection that is in none
MDisconnect(c, room_id) ==
    /\ RoomsOf(manager, c) \in {{}, {room_id}}
    /\ manager' = Disconnect(manager, c, room_id).m
    /\ bc' = Track(bc, manager, manager')
    /\ UNCHANGED <<user_mutes, now, call, ncalls, rec0, http, store, run,
                   checks, stats, ws, inbox, nev, sess, trace, npay>>

\* manager.broadcast_to_room
MBroadcast(t, room_id) ==
    /\ bc[t].pc \in {"idle", "done", "raised"}
    /\ nev < MaxBroadcasts
    /\ nev' = nev + 1
    /\ StartBroadcast(t, room_id, Event("chat", t, room_id, nev + 1),
                      manager, bc)
    /\ UNCHANGED <<user_mutes, now, call, ncalls, rec0, http, store, run,
                   checks, stats, ws, sess, trace, npay>>

\* the client of a connection goes away
TransportDrop(c) ==
    /\ ws[c] = "open"
    /\ ws' = [ws EXCEPT ![c] = "closed"]
    /\ UNCHANGED <<user_mutes, now, call, ncalls, rec0, http, store, run,
                   checks, stats, manager, inbox, bc, nev, sess, trace, npay>>

(* ------------- websocket_endpoint (handlers.py), the loop -------------- *)

(* models/message.py 32: Field(..., min_length=1, max_length=4096) *)
MinContent == 1
MaxContent == 4096

\* A text frame and what the classifier makes of its content.  kind: "text"
\* is no JSON, "scalar" is JSON that is no object (a number, a string, an
\* array, null), "object" is a JSON object with a string under "content",
\* "nocontent" is a JSON object without that key.  len: the characters of the
\* content ("object") or of the whole frame.  model: "ok", "unavailable"
\* (load_model fails) or "raises" (the pipeline call raises).  label, score:
\* the pipeline's prediction, the score in 1/100000.
NoPayload ==
    [kind |-> "", len |-> 0, model |-> "", label |-> "", score |-> 0]

\* a frame {"content": "..."} of a well-behaved client, which the classifier
\* finds clearly toxic or clearly not
Chat(toxic) ==
    [kind |-> "object", len |-> MinContent, model |-> "ok",
     label |-> IF toxic THEN "LABEL_1" ELSE "LABEL_0", score |-> 98766]

\* handlers.py 98-104: json.loads(data), message_data.get("content", ""),
\* except json.JSONDecodeError: whether an exception escapes (the
\* AttributeError of .get on what is no dict), and the length of content
ParseContent(p) ==
    CASE p.kind = "text" -> [raised |-> FALSE, len |-> p.len]
      [] p.kind = "scalar" -> [raised |-> TRUE, len |-> 0]
      [] p.kind = "nocontent" -> [raised |-> FALSE, len |-> 0]
      [] OTHER -> [raised |-> FALSE, len |-> p.len]

\* handlers.py 158-163: Message(type, content, sender, room_id) validates
ValidMessage(len) == MinContent <= len /\ len <= MaxContent

(* services/toxicity.py *)

\* round(x, 4) of a score in 1/100000, in 1/10000 (no score used is a tie)
Round4(x) == (x + 5) \div 10

\* toxicity.py 122-141
GetToxicityLevel(score) ==
    IF score < 2000 THEN "safe"
    ELSE IF score < 4000 THEN "mild"
    ELSE IF score < 6000 THEN "moderate"
    ELSE IF score < 8000 THEN "high"
    ELSE "severe"

\* toxicity.py 143-154
GetDefaultScores ==
    [toxicity |-> 0, is_toxic |-> FALSE, toxicity_level |-> "unknown"]

\* mutant: a pipeline call that fails counts against the sender, scored as
\* toxic as can be, where line 120 returns the default scores
Analyze_FailureToxic(p) ==
    IF p.model = "unavailable" THEN GetDefaultScores
    ELSE IF p.model = "raises"
    THEN [toxicity |-> 10000, is_toxic |-> TRUE,
          toxicity_level |-> GetToxicityLevel(10000)]
    ELSE LET toxicity_score ==
                 IF p.label \in {"LABEL_1", "toxic"} THEN p.score
                 ELSE 100000 - p.score
             toxicity == Round4(toxicity_score)
         IN  [toxicity |-> toxicity,
              is_toxic |-> toxicity > 5000,
              toxicity_level |-> GetToxicityLevel(toxicity)]

\* mutant: the flag of line 111 with >= for >
Analyze_AtLeast(p) ==
    IF p.model \in {"unavailable", "raises"} THEN GetDefaultScores
    ELSE LET toxicity_score ==
                 IF p.label \in {"LABEL_1", "toxic"} THEN p.score
                 ELSE 100000 - p.score
             toxicity == Round4(toxicity_score)
         IN  [toxicity |-> toxicity,
              is_toxic |-> toxicity >= 5000,
              toxicity_level |-> GetToxicityLevel(toxicity)]

\* toxicity.py 51-120: analyze; toxicity in 1/10000
Analyze(p) ==
    IF p.model \in {"unavailable", "raises"} THEN GetDefaultScores
    ELSE LET toxicity_score ==
                 IF p.label \in {"LABEL_1", "toxic"} THEN p.score
                 ELSE 100000 - p.score
             toxicity == Round4(toxicity_score)
         IN  [toxicity |-> toxicity,
              is_toxic |-> toxicity > 5000,
              toxicity_level |-> GetToxicityLevel(toxicity)]

NoSession ==
    [pc |-> "new", username |-> "", room_id |-> "", is_toxic |-> FALSE,
     payload |-> NoPayload]

\* history of the loop body on one payload: the calls, sends and broadcasts
\* it has made, the event types its own client has been sent, whether
\* check_mute_status reported is_muted, whether a send to its client raised,
\* and for its chat broadcast whether the sender's record was muted and
\* unexpired when it began and what process_message_toxicity had returned
\* since: the payload is the since-th one received after an unmute_user call
\* on the sender's key returned true, 0 when there has been none
\* saved: what save_message came to, "none" before it has returned
\* users: the "users" of the join, sync or leave event the session has built
NoTrace ==
    [ops |-> <<>>, got |-> <<>>, muted |-> FALSE, failed |-> FALSE,
     chat_muted |-> FALSE, action |-> "none", since |-> 0, saved |-> "none",
     users |-> <<>>]

\* the tasks whose unmute_user call on a key has returned true
Unmuters(u, r) ==
    {t \in Procs : /\ call[t].pc = "done"
                   /\ call[t].result = UnmuteResult(TRUE)
                   /\ Key(call[t]) = <<u, r>>}

SinceUnmute(u, r) ==
    IF Unmuters(u, r) = {} THEN 0
    ELSE npay + 1 - call[CHOOSE t \in Unmuters(u, r) : TRUE].seen

SetSess(w, s, tr) ==
    /\ sess' = [sess EXCEPT ![w] = s]
    /\ trace' = [trace EXCEPT ![w] = tr]

Finished(t) == bc[t].pc \in {"done", "raised"}

\* 239-251: except WebSocketDisconnect: disconnect, then the leave broadcast
\* up to its first await
Leave(w, s, tr) ==
    LET d == Disconnect(manager, w, s.room_id)
    IN  /\ SetSess(w, [s EXCEPT !.pc = "leave"],
                   [tr EXCEPT !.users = GetRoomUsers(d.m, s.room_id)])
        /\ StartBroadcast(w, s.room_id,
                          Event("leave", "System", s.room_id, 0),
                          d.m, Track(bc, manager, d.m))

\* 229-237: except Exception: the error event to the sender.  On a closed
\* transport that send raises in its turn, out of the handler: as
\* WebSocketDisconnect, which line 239 catches, or as another exception,
\* which ends the task with the connection still registered.
Raised(w, s, tr) ==
    LET tr2 == [tr EXCEPT !.ops = Append(@, <<"send", "error">>)]
    IN  IF ws[w] = "open"
        THEN /\ SetSess(w, [s EXCEPT !.pc = "sent_error"],
                        [tr2 EXCEPT !.got = Append(@, "error")])
             /\ UNCHANGED <<manager, bc, inbox>>
        ELSE \/ Leave(w, s, tr2)
             \/ /\ SetSess(w, [s EXCEPT !.pc = "crashed"], tr2)
                /\ UNCHANGED <<manager, bc, inbox>>

\* manager.py 79-87 called inside the try: send_personal_message up to its
\* await, or the exception it raises on a closed transport
Unicast(w, s, tr, type, pcnext) ==
    LET tr2 == [tr EXCEPT !.ops = Append(@, <<"send", type>>)]
    IN  IF ws[w] = "open"
        THEN /\ SetSess(w, [s EXCEPT !.pc = pcnext],
                        [tr2 EXCEPT !.got = Append(@, type)])
             /\ UNCHANGED <<manager, bc, inbox>>
        ELSE Raised(w, s, [tr2 EXCEPT !.failed = TRUE])

\* manager.broadcast_to_room called inside the try, up to its first await
Bcast(w, s, tr, type, sender, pcnext) ==
    /\ SetSess(w, [s EXCEPT !.pc = pcnext],
               [tr EXCEPT !.ops = Append(@, <<"broadcast", type>>)])
    /\ StartBroadcast(w, s.room_id, Event(type, sender, s.room_id, 0),
                      manager, bc)

\* 147-155: the classifier, then process_message_toxicity up to its first
\* await
StartProcess(w, s, tr) ==
    LET toxicity_scores == Analyze(s.payload)
    IN  /\ SetSess(w, [s EXCEPT !.pc = "process",
                                !.is_toxic = toxicity_scores.is_toxic],
                   [tr EXCEPT
                       !.ops = @ \o <<<<"call", "analyze">>,
                                      <<"call", "process_message_toxicity">>>>])
        /\ Begin(w, "p_select", s.username, s.room_id,
                 toxicity_scores.is_toxic)
    /\ UNCHANGED <<manager, bc, inbox>>

\* 134-155: the branch on is_muted
RejectOrProcess(w, s, tr) ==
    IF call[w].result.is_muted
    THEN /\ Unicast(w, s, tr, "mute_rejected", "sent_reject")
         /\ UNCHANGED call
    ELSE StartProcess(w, s, tr)

\* 96-108: a frame arrives.  An exception of lines 99-100 that is no
\* JSONDecodeError is raised outside the try of line 106 and is no
\* WebSocketDisconnect: it leaves websocket_endpoint, and the task ends with
\* the connection registered.  Else check_mute_status up to its first await.
HReceivePayload(w, p) ==
    /\ sess[w].pc = "recv" /\ ws[w] = "open"
    /\ npay < MaxPayloads
    /\ npay' = npay + 1
    /\ IF ParseContent(p).raised
       THEN /\ SetSess(w, [sess[w] EXCEPT !.pc = "crashed", !.payload = p,
                                          !.is_toxic = FALSE],
                       [NoTrace EXCEPT
                           !.ops = <<<<"raise", "AttributeError">>>>])
            /\ UNCHANGED call
       ELSE /\ SetSess(w, [sess[w] EXCEPT !.pc = "check", !.payload = p,
                                          !.is_toxic = FALSE],
                       [NoTrace EXCEPT
                           !.ops = <<<<"call", "check_mute_status">>>>,
                           !.since = SinceUnmute(sess[w].username,
                                                 sess[w].room_id)])
            /\ Begin(w, "c_select", sess[w].username, sess[w].room_id,
                     FALSE)
    /\ UNCHANGED <<user_mutes, now, ncalls, rec0, http, store, run, checks,
                   stats, manager, ws, inbox, bc, nev>>

\* a frame of a well-behaved client
HReceive(w, toxic) == HReceivePayload(w, Chat(toxic))

\* 96, 239-251: receive_text raises WebSocketDisconnect
HReceiveDisconnect(w) ==
    /\ sess[w].pc = "recv" /\ ws[w] = "closed"
    /\ Leave(w, sess[w], trace[w])
    /\ UNCHANGED <<user_mutes, now, call, ncalls, rec0, http, store, run,
                   checks, stats, ws, nev, npay>>

\* 108-155: check_mute_status has returned
HAfterCheck(w) ==
    LET res == call[w].result
        tr == [trace[w] EXCEPT !.muted = res.is_muted]
    IN  /\ sess[w].pc = "check" /\ call[w].pc = "done"
        /\ IF res.just_unmuted
           THEN /\ Unicast(w, sess[w], tr, "unmuted", "sent_unmuted")
                /\ UNCHANGED call
           ELSE RejectOrProcess(w, sess[w], tr)
        /\ UNCHANGED <<user_mutes, now, ncalls, rec0, http, store, run, checks,
                       stats, ws, nev, npay>>

\* 120-131: the unmuted event has been sent to the sender; now to the room
HUnmutedRoom(w) ==
    /\ sess[w].pc = "sent_unmuted"
    /\ Bcast(w, sess[w], trace[w], "unmuted", "System", "b_unmuted")
    /\ UNCHANGED <<user_mutes, now, call, ncalls, rec0, http, store, run,
                   checks, stats, ws, nev, npay>>

\* 131-155: the unmuted broadcast has returned or raised
HAfterUnmuted(w) ==
    /\ sess[w].pc = "b_unmuted" /\ Finished(w)
    /\ IF bc[w].pc = "raised"
       THEN Raised(w, sess[w], trace[w]) /\ UNCHANGED call
       ELSE RejectOrProcess(w, sess[w], trace[w])
    /\ UNCHANGED <<user_mutes, now, ncalls, rec0, http, store, run, checks,
                   stats, ws, nev, npay>>

\* mutant: line 144 without its `continue`
HRejected_FallThrough(w) ==
    /\ sess[w].pc = "sent_reject"
    /\ StartProcess(w, sess[w], trace[w])
    /\ UNCHANGED <<user_mutes, now, ncalls, rec0, http, store, run, checks,
                   stats, ws, nev, npay>>

\* 143-144: the mute_rejected event has been sent; continue
HRejected(w) ==
    /\ sess[w].pc = "sent_reject"
    /\ SetSess(w, [sess[w] EXCEPT !.pc = "recv"], trace[w])
    /\ UNCHANGED <<user_mutes, now, call, ncalls, rec0, http, store, run,
                   checks, stats, manager, ws, inbox, bc, nev, npay>>

\* 151-171: process_message_toxicity has returned; Message(...), then
\* save_message up to its first await
HAfterProcess(w) ==
    /\ sess[w].pc = "process" /\ call[w].pc = "done"
    /\ IF ValidMessage(ParseContent(sess[w].payload).len)
       THEN /\ SetSess(w, [sess[w] EXCEPT !.pc = "save"],
                       [trace[w] EXCEPT
                           !.ops = Append(@, <<"call", "save_message">>)])
            /\ UNCHANGED <<manager, bc, inbox>>
       ELSE Raised(w, sess[w],
                   [trace[w] EXCEPT
                       !.ops = Append(@, <<"raise", "ValidationError">>)])
    /\ UNCHANGED <<user_mutes, now, call, ncalls, rec0, http, store, run,
                   checks, stats, ws, nev, npay>>

\* mutant: save_message without its handler of lines 97-100; the exception
\* reaches the handler of line 229
HSaveReturned_Raises(w, ok) ==
    LET s == sess[w]
        rec == Rec(s.username, s.room_id)
        tr == [trace[w] EXCEPT
                  !.chat_muted = /\ rec.is_muted
                                 /\ rec.mute_expires_at # None
                                 /\ now < rec.mute_expires_at,
                  !.action = call[w].result.action,
                  !.saved = IF ok THEN "ok" ELSE "failed"]
    IN  /\ s.pc = "save"
        /\ IF ok THEN Bcast(w, s, tr, "chat", s.username, "b_chat")
           ELSE Raised(w, s, tr)
        /\ UNCHANGED <<user_mutes, now, call, ncalls, rec0, http, store, run,
                       checks, stats, ws, nev, npay>>

\* chat.py 62-100, handlers.py 166-179: save_message has returned, the
\* message committed (ok) or an exception caught, rolled back and dropped at
\* chat.py 97-100; the chat broadcast up to its first await
HSaveReturned(w, ok) ==
    LET s == sess[w]
        rec == Rec(s.username, s.room_id)
    IN  /\ s.pc = "save"
        /\ Bcast(w, s,
                 [trace[w] EXCEPT
                     !.chat_muted = /\ rec.is_muted
                                    /\ rec.mute_expires_at # None
                                    /\ now < rec.mute_expires_at,
                     !.action = call[w].result.action,
                     !.saved = IF ok THEN "ok" ELSE "failed"],
                 "chat", s.username, "b_chat")
        /\ UNCHANGED <<user_mutes, now, call, ncalls, rec0, http, store, run,
                       checks, stats, ws, nev, npay>>

\* the database takes the message
HSaved(w) == HSaveReturned(w, TRUE)

\* 179-215: the chat broadcast has returned or raised; the notice to the
\* sender
HAfterChat(w) ==
    LET action == call[w].result.action
    IN  /\ sess[w].pc = "b_chat" /\ Finished(w)
        /\ IF bc[w].pc = "raised"
           THEN Raised(w, sess[w], trace[w])
           ELSE IF action = "warning"
           THEN Unicast(w, sess[w], trace[w], "warning", "sent_warning")
           ELSE IF action = "muted"
           THEN Unicast(w, sess[w], trace[w], "muted", "sent_muted")
           ELSE /\ SetSess(w, [sess[w] EXCEPT !.pc = "recv"], trace[w])
                /\ UNCHANGED <<manager, bc, inbox>>
        /\ UNCHANGED <<user_mutes, now, call, ncalls, rec0, http, store, run,
                       checks, stats, ws, nev, npay>>

\* 199: the warning event has been sent
HWarned(w) ==
    /\ sess[w].pc = "sent_warning"
    /\ SetSess(w, [sess[w] EXCEPT !.pc = "recv"], trace[w])
    /\ UNCHANGED <<user_mutes, now, call, ncalls, rec0, http, store, run,
                   checks, stats, manager, ws, inbox, bc, nev, npay>>

\* 215-227: the muted event has been sent to the sender; now to the room
HMutedRoom(w) ==
    /\ sess[w].pc = "sent_muted"
    /\ Bcast(w, sess[w], trace[w], "muted", "System", "b_muted")
    /\ UNCHANGED <<user_mutes, now, call, ncalls, rec0, http, store, run,
                   checks, stats, ws, nev, npay>>

\* 227: the muted broadcast has returned or raised
HAfterMuted(w) ==
    /\ sess[w].pc = "b_muted" /\ Finished(w)
    /\ IF bc[w].pc = "raised"
       THEN Raised(w, sess[w], trace[w])
       ELSE /\ SetSess(w, [sess[w] EXCEPT !.pc = "recv"], trace[w])
            /\ UNCHANGED <<manager, bc, inbox>>
    /\ UNCHANGED <<user_mutes, now, call, ncalls, rec0, http, store, run,
                   checks, stats, ws, nev, npay>>

\* 237: the error event has been sent
HErrorSent(w) ==
    /\ sess[w].pc = "sent_error"
    /\ SetSess(w, [sess[w] EXCEPT !.pc = "recv"], trace[w])
    /\ UNCHANGED <<user_mutes, now, call, ncalls, rec0, http, store, run,
                   checks, stats, manager, ws, inbox, bc, nev, npay>>

\* 251: the leave broadcast has returned, or raised out of the handler
HLeft(w) ==
    /\ sess[w].pc = "leave" /\ Finished(w)
    /\ SetSess(w, [sess[w] EXCEPT !.pc = IF bc[w].pc = "raised"
                                         THEN "crashed" ELSE "ended"],
               trace[w])
    /\ UNCHANGED <<user_mutes, now, call, ncalls, rec0, http, store, run,
                   checks, stats, manager, ws, inbox, bc, nev, npay>>

(* ------ websocket_endpoint (handlers.py), from the start to the loop ---- *)

\* the tokens a client may present: none, one that jwt.decode rejects (bad
\* signature, expired), one without a "sub" claim, and well-formed ones whose
\* "sub" names a user of the users table or one that is not in it
Tokens == {"", "bad", "nosub", "sub:alice", "sub:bob", "sub:carol"}

NoUser == ""

\* jwt.decode: whether it returns, and payload.get("sub") ("" for None)
Decode(token) ==
    CASE token = "bad" -> [ok |-> FALSE, sub |-> ""]
      [] token = "nosub" -> [ok |-> TRUE, sub |-> ""]
      [] token = "sub:alice" -> [ok |-> TRUE, sub |-> "alice"]
      [] token = "sub:bob" -> [ok |-> TRUE, sub |-> "bob"]
      [] OTHER -> [ok |-> TRUE, sub |-> "carol"]

\* deps.py 39-61: get_ws_user; the username of the user found, or none
GetWsUser(token) ==
    IF token = "" THEN NoUser
    ELSE LET payload == Decode(token)
         IN  IF ~ payload.ok THEN NoUser
             ELSE IF payload.sub = "" THEN NoUser
             ELSE IF payload.sub \in Users THEN payload.sub
             ELSE NoUser

\* send_personal_message outside the try of line 93: on a closed transport
\* the exception leaves websocket_endpoint, and the task ends with the
\* connection registered
EntrySend(w, type, pcnext) ==
    LET tr == [trace[w] EXCEPT !.ops = Append(@, <<"send", type>>)]
    IN  IF ws[w] = "open"
        THEN SetSess(w, [sess[w] EXCEPT !.pc = pcnext],
                     [tr EXCEPT !.got = Append(@, type)])
        ELSE SetSess(w, [sess[w] EXCEPT !.pc = "crashed"],
                     [tr EXCEPT !.failed = TRUE])

\* 31: a client opens the socket; get_ws_user up to its return
HOpen(w, token, room_id) ==
    /\ sess[w].pc = "new" /\ ws[w] = "new"
    /\ SetSess(w, [sess[w] EXCEPT !.pc = "auth",
                                  !.username = GetWsUser(token),
                                  !.room_id = room_id],
               NoTrace)
    /\ UNCHANGED <<user_mutes, now, call, ncalls, rec0, http, store, run,
                   checks, stats, manager, ws, inbox, bc, nev, npay>>

\* mutant: line 33 without the return of line 34
HAuthed_NoReturn(w) ==
    /\ sess[w].pc = "auth"
    /\ SetSess(w, [sess[w] EXCEPT !.pc = "accept"],
               [trace[w] EXCEPT
                   !.ops = Append(@, IF sess[w].username = NoUser
                                     THEN <<"close", "4003">>
                                     ELSE <<"call", "connect">>)])
    /\ ws' = [ws EXCEPT ![w] = "open"]
    /\ UNCHANGED <<user_mutes, now, call, ncalls, rec0, http, store, run,
                   checks, stats, manager, inbox, bc, nev, npay>>

\* 32-39, manager.py 40: no user: websocket.close(code=4003) up to its
\* await; a user: manager.connect up to the await of websocket.accept()
HAuthed(w) ==
    /\ sess[w].pc = "auth"
    /\ IF sess[w].username = NoUser
       THEN /\ SetSess(w, [sess[w] EXCEPT !.pc = "refused"],
                       [trace[w] EXCEPT
                           !.ops = Append(@, <<"close", "4003">>)])
            /\ ws' = [ws EXCEPT ![w] = "closed"]
       ELSE /\ SetSess(w, [sess[w] EXCEPT !.pc = "accept"],
                       [trace[w] EXCEPT
                           !.ops = Append(@, <<"call", "connect">>)])
            /\ ws' = [ws EXCEPT ![w] = "open"]
    /\ UNCHANGED <<user_mutes, now, call, ncalls, rec0, http, store, run,
                   checks, stats, manager, inbox, bc, nev, npay>>

\* 34: return
HRefused(w) ==
    /\ sess[w].pc = "refused"
    /\ SetSess(w, [sess[w] EXCEPT !.pc = "ended"], trace[w])
    /\ UNCHANGED <<user_mutes, now, call, ncalls, rec0, http, store, run,
                   checks, stats, manager, ws, inbox, bc, nev, npay>>

\* manager.py 40-43: accept has returned; get_or_create_room up to its await
HAccepted(w) ==
    /\ sess[w].pc = "accept"
    /\ SetSess(w, [sess[w] EXCEPT !.pc = "room"], trace[w])
    /\ UNCHANGED <<user_mutes, now, call, ncalls, rec0, http, store, run,
                   checks, stats, manager, ws, inbox, bc, nev, npay>>

\* manager.py 43-53, handlers.py 42: the room exists; the connection is
\* registered; check_mute_status up to its first await
HConnected(w) ==
    /\ sess[w].pc = "room"
    /\ store' = GetOrCreateRoom(store, sess[w].room_id)
    /\ manager' = Connect(manager, w, sess[w].username, sess[w].room_id)
    /\ bc' = Track(bc, manager, manager')
    /\ SetSess(w, [sess[w] EXCEPT !.pc = "entry_check"],
               [trace[w] EXCEPT
                   !.ops = Append(@, <<"call", "check_mute_status">>)])
    /\ Begin(w, "c_select", sess[w].username, sess[w].room_id, FALSE)
    /\ UNCHANGED <<user_mutes, now, ncalls, rec0, http, run, checks, stats,
                   ws, inbox, nev, npay>>

\* 42-65: check_mute_status has returned; the unmuted event when the mute
\* has just expired, else the mute_status event
HEntryChecked(w) ==
    /\ sess[w].pc = "entry_check" /\ call[w].pc = "done"
    /\ IF call[w].result.just_unmuted
       THEN EntrySend(w, "unmuted", "entry_unmuted")
       ELSE EntrySend(w, "mute_status", "entry_status")
    /\ UNCHANGED <<user_mutes, now, call, ncalls, rec0, http, store, run,
                   checks, stats, manager, ws, inbox, bc, nev, npay>>

\* 54-65: the unmuted event has been sent; the mute_status event
HEntryUnmuted(w) ==
    /\ sess[w].pc = "entry_unmuted"
    /\ EntrySend(w, "mute_status", "entry_status")
    /\ UNCHANGED <<user_mutes, now, call, ncalls, rec0, http, store, run,
                   checks, stats, manager, ws, inbox, bc, nev, npay>>

\* 65-68: the mute_status event has been sent; join_room up to its first
\* await
HEntryStatus(w) ==
    /\ sess[w].pc = "entry_status"
    /\ SetSess(w, [sess[w] EXCEPT !.pc = "join"],
               [trace[w] EXCEPT !.ops = Append(@, <<"call", "join_room">>)])
    /\ UNCHANGED <<user_mutes, now, call, ncalls, rec0, http, store, run,
                   checks, stats, manager, ws, inbox, bc, nev, npay>>

\* mutant: the join event whatever join_room returns
HJoinSelect_AlwaysJoin(w) ==
    LET s == sess[w]
    IN  /\ s.pc = "join"
        /\ IF <<s.username, s.room_id>> \in store.user_rooms
           THEN Bcast(w, s,
                      [trace[w] EXCEPT
                          !.users = GetRoomUsers(manager, s.room_id)],
                      "join", "System", "b_join")
           ELSE /\ SetSess(w, [s EXCEPT !.pc = "join_commit"], trace[w])
                /\ UNCHANGED <<manager, bc, inbox>>
        /\ UNCHANGED <<user_mutes, now, call, ncalls, rec0, http, store, run,
                       checks, stats, ws, nev, npay>>

\* chat.py 189-209, handlers.py 80-91: join_room's selects: a member
\* already, it returns False and the sync event goes to the room
HJoinSelect(w) ==
    LET s == sess[w]
    IN  /\ s.pc = "join"
        /\ IF <<s.username, s.room_id>> \in store.user_rooms
           THEN Bcast(w, s,
                      [trace[w] EXCEPT
                          !.users = GetRoomUsers(manager, s.room_id)],
                      "sync", "System", "b_join")
           ELSE /\ SetSess(w, [s EXCEPT !.pc = "join_commit"], trace[w])
                /\ UNCHANGED <<manager, bc, inbox>>
        /\ UNCHANGED <<user_mutes, now, call, ncalls, rec0, http, store, run,
                       checks, stats, ws, nev, npay>>

\* chat.py 219-233, handlers.py 70-79: join_room's commit.  The insert of a
\* (user, room) pair that another session has inserted since the select
\* violates the primary key of user_rooms: join_room rolls back and raises,
\* out of websocket_endpoint.  Else it returns True and the join event goes
\* to the room.
HJoinCommit(w) ==
    LET s == sess[w]
    IN  /\ s.pc = "join_commit"
        /\ IF <<s.username, s.room_id>> \in store.user_rooms
           THEN /\ SetSess(w, [s EXCEPT !.pc = "crashed"], trace[w])
                /\ UNCHANGED <<manager, bc, inbox, store>>
           ELSE /\ store' = JoinRoom(store, s.username, s.room_id)
                /\ Bcast(w, s,
                         [trace[w] EXCEPT
                             !.users = GetRoomUsers(manager, s.room_id)],
                         "join", "System", "b_join")
        /\ UNCHANGED <<user_mutes, now, call, ncalls, rec0, http, run,
                       checks, stats, ws, nev, npay>>

\* 79, 91-96: the join or sync broadcast has returned, and the loop begins,
\* or it has raised, out of websocket_endpoint
HEntered(w) ==
    /\ sess[w].pc = "b_join" /\ Finished(w)
    /\ SetSess(w, [sess[w] EXCEPT !.pc = IF bc[w].pc = "raised"
                                         THEN "crashed" ELSE "recv"],
               trace[w])
    /\ UNCHANGED <<user_mutes, now, call, ncalls, rec0, http, store, run,
                   checks, stats, manager, ws, inbox, bc, nev, npay>>

(* ----------------- routes/chat.py: POST .../unmute/{username} ---------- *)

NoRoom == [id |-> "", creator |-> ""]

\* chat_service.get_room(room_id): the room's record, or none
GetRoom(st, room_id) ==
    IF room_id \in DOMAIN st.rooms
    THEN [id |-> room_id, creator |-> st.rooms[room_id]]
    ELSE NoRoom

\* raise HTTPException(status_code=...), or the return of the route
Respond(t, status) ==
    http' = [http EXCEPT ![t].pc = "done", ![t].status = status]

\* 264-275: the request of an authenticated user, up to the await of get_room
RUnmute(t, caller, room_id, username) ==
    /\ http[t].pc = "idle" /\ call[t].pc = "idle" /\ bc[t].pc = "idle"
    /\ http' = [http EXCEPT ![t] =
                    [NoRequest EXCEPT !.pc = "get_room", !.route = "unmute",
                                      !.caller = caller, !.room_id = room_id,
                                      !.username = username]]
    /\ UNCHANGED <<user_mutes, now, call, ncalls, rec0, store, run, checks,
                   stats, manager, ws, inbox, bc, nev, sess, trace, npay>>

\* mutant: the route without its test of `success` (lines 287-291)
RAfterUnmute_NoTest(t) ==
    LET h == http[t]
    IN  /\ h.pc = "unmute" /\ call[t].pc = "done"
        /\ http' = [http EXCEPT ![t].pc = "broadcast"]
        /\ nev' = nev + 1
        /\ StartBroadcast(t, h.room_id,
                          Event("unmuted", "System", h.room_id, nev + 1),
                          manager, bc)
        /\ UNCHANGED <<user_mutes, now, call, ncalls, rec0, store, run, checks,
                       stats, ws, sess, trace, npay>>

\* 275-285: get_room has returned; 404, 403, or unmute_user up to its first
\* await
RGotRoom(t) ==
    LET h == http[t]
        room == GetRoom(store, h.room_id)
    IN  /\ h.pc = "get_room"
        /\ IF room = NoRoom
           THEN Respond(t, 404) /\ UNCHANGED call
           ELSE IF room.creator # h.caller
           THEN Respond(t, 403) /\ UNCHANGED call
           ELSE /\ http' = [http EXCEPT ![t].pc = "unmute"]
                /\ Begin(t, "u_select", h.username, h.room_id, FALSE)
        /\ UNCHANGED <<user_mutes, now, ncalls, rec0, store, run, checks, stats,
                       manager, ws, inbox, bc, nev, sess, trace, npay>>

\* 285-306: unmute_user has returned; 404, or the unmuted event and
\* broadcast_to_room up to its first await
RAfterUnmute(t) ==
    LET h == http[t]
    IN  /\ h.pc = "unmute" /\ call[t].pc = "done"
        /\ IF ~ call[t].result.ok
           THEN /\ Respond(t, 404)
                /\ UNCHANGED <<manager, inbox, bc, nev>>
           ELSE /\ http' = [http EXCEPT ![t].pc = "broadcast"]
                /\ nev' = nev + 1
                /\ StartBroadcast(t, h.room_id,
                                  Event("unmuted", "System", h.room_id,
                                        nev + 1),
                                  manager, bc)
        /\ UNCHANGED <<user_mutes, now, call, ncalls, rec0, store, run, checks,
                       stats, ws, sess, trace, npay>>

\* 306-313: broadcast_to_room has returned, or raised out of the route
RAfterBroadcast(t) ==
    /\ http[t].pc = "broadcast" /\ Finished(t)
    /\ Respond(t, IF bc[t].pc = "raised" THEN 500 ELSE 200)
    /\ UNCHANGED <<user_mutes, now, call, ncalls, rec0, store, run, checks,
                   stats, manager, ws, inbox, bc, nev, sess, trace, npay>>

(* ------------------------------- Init ---------------------------------- *)

\* A row as c0 toxic messages below the threshold leave it.
WarnedRow(u, r, c0) ==
    [NewUserMute(u, r) EXCEPT !.consecutive_toxic_count = c0,
                              !.warning_count = c0]

KeyOrder ==
    CHOOSE s \in [1..Cardinality(Keys) -> Keys] :
        \A k \in Keys : \E i \in DOMAIN s : s[i] = k

RECURSIVE TableOf(_, _, _)
TableOf(present, c0, i) ==
    IF i = 0 THEN <<>>
    ELSE LET k == KeyOrder[i]
             rest == TableOf(present, c0, i - 1)
         IN  IF k \in present
             THEN Append(rest, WarnedRow(k[1], k[2], c0[k]))
             ELSE rest

\* A row as the fifth toxic message in a row, at time t, leaves it.
MutedRow(u, r, t) ==
    ProcessBody(WarnedRow(u, r, TOXIC_THRESHOLD - 1), TRUE, t).obj

\* the database and the clock of a started process, no call under way
ServiceStarts(tbl) ==
    /\ user_mutes = tbl
    /\ now = 0
    /\ call = [t \in Procs |-> IdleCall]
    /\ http = [t \in Tasks |-> NoRequest]
    /\ ncalls = 0
    /\ rec0 = [k \in Keys |-> Rec(k[1], k[2])]
    /\ run = [k \in Keys |-> <<>>]
    /\ checks = [k \in Keys |-> <<>>]
    /\ stats = [k \in Keys |-> [toxic |-> 0, calm |-> 0, muted |-> 0,
                                 unmutes |-> 0]]

\* the key's row is absent, or as some toxic messages left it
InitService ==
    \E present \in SUBSET CallKeys :
       \E c0 \in [Keys -> 0..(TOXIC_THRESHOLD - 1)] :
          /\ \A k \in Keys \ present : c0[k] = 0
          /\ ServiceStarts(TableOf(present, c0, Cardinality(Keys)))

\* no connection yet
Init ==
    /\ InitService
    /\ store = NewStore
    /\ manager = NewManager
    /\ ws = [c \in Conns |-> "new"]
    /\ inbox = [c \in Conns |-> <<>>]
    /\ bc = [t \in Procs |-> NoBroadcast]
    /\ nev = 0
    /\ sess = [c \in Conns |-> NoSession]
    /\ trace = [c \in Conns |-> NoTrace]
    /\ npay = 0

\* the manager's direct callers leave the database alone: it starts empty
InitMgr == Init /\ user_mutes = <<>>

\* the connections that are in the receive loop when a behaviour of the
\* loop starts: two in one room, the first of alice, the second of either
LoopConns == {"w1", "w2"}

\* Two sessions have gone through lines 31-91 and wait in receive_text;
\* alice is one toxic message from the mute, or has just been muted.
ActiveStarts(tables) ==
    /\ \E tbl \in tables : ServiceStarts(tbl)
    /\ \E u2 \in Users :
          /\ manager = Connect(Connect(NewManager, "w1", "alice", "general"),
                               "w2", u2, "general")
          /\ store = JoinRoom(JoinRoom(NewStore, "alice", "general"),
                              u2, "general")
          /\ sess = [c \in Conns |->
                        IF c = "w1"
                        THEN [NoSession EXCEPT !.pc = "recv",
                                               !.username = "alice",
                                               !.room_id = "general"]
                        ELSE IF c = "w2"
                        THEN [NoSession EXCEPT !.pc = "recv",
                                               !.username = u2,
                                               !.room_id = "general"]
                        ELSE NoSession]
    /\ ws = [c \in Conns |-> IF c \in LoopConns THEN "open" ELSE "new"]
    /\ inbox = [c \in Conns |-> <<>>]
    /\ bc = [t \in Procs |-> NoBroadcast]
    /\ nev = 0
    /\ trace = [c \in Conns |-> NoTrace]
    /\ npay = 0

InitActive ==
    ActiveStarts({<<WarnedRow("alice", "general", TOXIC_THRESHOLD - 1)>>,
                  <<MutedRow("alice", "general", 0)>>})

(* --------------------------- specifications ---------------------------- *)

Step(t) ==
    \/ PSelect(t) \/ PCommit(t) \/ PRefresh(t)
    \/ CSelect(t) \/ CCommit(t)
    \/ USelect(t) \/ UCommit(t)

AllIdle == \A t \in Tasks : call[t].pc \in {"idle", "done"}

\* one service call at a time: a call starts when no other is under way
SeqCall ==
    /\ AllIdle /\ ncalls < MaxCalls
    /\ \E t \in SeqTasks, k \in CallKeys :
          \/ \E toxic \in BOOLEAN : CallProcess(t, k[1], k[2], toxic)
          \/ CallCheck(t, k[1], k[2])
          \/ CallUnmute(t, k[1], k[2])

SeqNext == SeqCall \/ (\E t \in Tasks : Step(t)) \/ Tick

SpecSeq == Init /\ [][SeqNext]_vars

\* calls of different tasks interleave at every await
ConcCall ==
    /\ ncalls < MaxConcCalls
    /\ \E t \in Tasks, k \in CallKeys :
          \/ \E toxic \in BOOLEAN : CallProcess(t, k[1], k[2], toxic)
          \/ CallCheck(t, k[1], k[2])
          \/ CallUnmute(t, k[1], k[2])

Next == ConcCall \/ (\E t \in Tasks : Step(t)) \/ Tick

Spec == Init /\ [][Next]_vars

\* toxic payloads, checks and unmutes on one key, the calls overtaking one
\* another between their select and their commit
StaleCall ==
    /\ ncalls < MaxStaleCalls
    /\ \E t \in Tasks, k \in CallKeys :
          \/ CallProcess(t, k[1], k[2], TRUE)
          \/ CallCheck(t, k[1], k[2])
          \/ CallUnmute(t, k[1], k[2])

StaleNext == StaleCall \/ (\E t \in Tasks : Step(t)) \/ Tick

\* the row as three toxic payloads left it
InitStale ==
    /\ Init
    /\ user_mutes = <<WarnedRow("alice", "general", TOXIC_THRESHOLD - 2)>>

SpecStale == InitStale /\ [][StaleNext]_vars

\* who connects on which connection when the manager is called directly
UserOf == [c \in Conns |-> IF c = "w3" THEN "bob" ELSE "alice"]

\* the manager called by one task at a time: connect, disconnect and
\* broadcast_to_room start when no broadcast is under way
Quiet == \A t \in Procs : ~ InFlight(t)

\* the connections the interleaving callers of the manager work on
MgrConns == {"w1", "w2"}

MgrCall ==
    \/ \E c \in MgrConns, r \in Rooms : MConnect(c, UserOf[c], r)
    \/ \E c \in MgrConns, r \in Rooms : MDisconnect(c, r)
    \/ \E t \in Tasks, r \in Rooms : MBroadcast(t, r)

MgrSeqCall ==
    \/ \E c \in Conns, r \in Rooms : MConnect(c, UserOf[c], r)
    \/ \E c \in Conns, r \in Rooms : MDisconnect(c, r)
    \/ \E t \in SeqTasks, r \in Rooms : MBroadcast(t, r)

MgrSeqNext ==
    \/ Quiet /\ MgrSeqCall
    \/ \E t \in SeqTasks : BResume(t)
    \/ \E c \in Conns : TransportDrop(c)

SpecMgrSeq == InitMgr /\ [][MgrSeqNext]_vars

\* the manager called by tasks that interleave at every await
MgrNext ==
    \/ MgrCall
    \/ \E t \in Tasks : BResume(t)
    \/ \E c \in MgrConns : TransportDrop(c)

SpecMgr == InitMgr /\ [][MgrNext]_vars

\* a client goes away, the clock advances
LoopDrop(c) ==
    /\ Cardinality({x \in Conns : ws[x] = "closed"}) < MaxDrops
    /\ TransportDrop(c)

LoopTick == now < MaxLoopTicks * TickSeconds /\ Tick

\* the sessions of the connected clients, interleaving at every await
LoopNext ==
    \/ \E w \in LoopConns :
          \/ \E toxic \in BOOLEAN : HReceive(w, toxic)
          \/ HReceiveDisconnect(w)
          \/ HAfterCheck(w) \/ HUnmutedRoom(w) \/ HAfterUnmuted(w)
          \/ HRejected(w)
          \/ HAfterProcess(w) \/ HSaved(w) \/ HAfterChat(w)
          \/ HWarned(w) \/ HMutedRoom(w) \/ HAfterMuted(w)
          \/ HErrorSent(w) \/ HLeft(w)
          \/ CSelect(w) \/ CCommit(w)
          \/ PSelect(w) \/ PCommit(w) \/ PRefresh(w)
          \/ BResume(w)
          \/ LoopDrop(w)
    \/ LoopTick

SpecLoop == InitActive /\ [][LoopNext]_vars

\* the room's creator unmutes alice while the sessions run
UnmuteCall(t) ==
    /\ ncalls < MaxUnmutes
    /\ CallUnmute(t, "alice", "general")

\* the sessions on transports that stay up, and the unmute_user call
UnmuteNext ==
    \/ \E w \in LoopConns :
          \/ \E toxic \in BOOLEAN : HReceive(w, toxic)
          \/ HAfterCheck(w) \/ HUnmutedRoom(w) \/ HAfterUnmuted(w)
          \/ HRejected(w)
          \/ HAfterProcess(w) \/ HSaved(w) \/ HAfterChat(w)
          \/ HWarned(w) \/ HMutedRoom(w) \/ HAfterMuted(w)
          \/ CSelect(w) \/ CCommit(w)
          \/ PSelect(w) \/ PCommit(w) \/ PRefresh(w)
          \/ BResume(w)
    \/ \E t \in SeqTasks : UnmuteCall(t) \/ USelect(t) \/ UCommit(t)
    \/ LoopTick

SpecUnmute == InitActive /\ [][UnmuteNext]_vars

\* the frames a client may send: of each kind, with content at and beyond
\* both ends of what Message allows
ContentLengths == {MinContent - 1, MinContent, MaxContent, MaxContent + 1}

Payloads ==
    {[kind |-> k, len |-> n, model |-> "ok", label |-> "LABEL_0",
      score |-> 98766] :
        k \in {"text", "scalar", "nocontent", "object"},
        n \in ContentLengths}

\* the sessions on transports that stay up, the clients sending any frame
PayloadNext ==
    \/ \E w \in LoopConns :
          \/ \E p \in Payloads : HReceivePayload(w, p)
          \/ HAfterCheck(w) \/ HUnmutedRoom(w) \/ HAfterUnmuted(w)
          \/ HRejected(w)
          \/ HAfterProcess(w) \/ HSaved(w) \/ HAfterChat(w)
          \/ HErrorSent(w)
          \/ CSelect(w) \/ CCommit(w)
          \/ PSelect(w) \/ PCommit(w) \/ PRefresh(w)
          \/ BResume(w)
    \/ LoopTick

SpecPayload == InitActive /\ [][PayloadNext]_vars

\* the sessions on transports that stay up, over a database that may refuse
\* a message
SaveNext ==
    \/ \E w \in LoopConns :
          \/ \E toxic \in BOOLEAN : HReceive(w, toxic)
          \/ HAfterCheck(w) \/ HUnmutedRoom(w) \/ HAfterUnmuted(w)
          \/ HRejected(w)
          \/ HAfterProcess(w)
          \/ \E ok \in BOOLEAN : HSaveReturned(w, ok)
          \/ HAfterChat(w)
          \/ HWarned(w) \/ HMutedRoom(w) \/ HAfterMuted(w)
          \/ CSelect(w) \/ CCommit(w)
          \/ PSelect(w) \/ PCommit(w) \/ PRefresh(w)
          \/ BResume(w)
    \/ LoopTick

SpecSave == InitActive /\ [][SaveNext]_vars

\* the scores the pipeline may give, in 1/100000: on both sides of one half
\* and close enough to round to it, and a clear one
Scores == {49994, 50004, 50006, 98766}

\* the frames of well-behaved clients with what the classifier may come to
Analysed ==
    {[kind |-> "object", len |-> MinContent, model |-> "ok", label |-> l,
      score |-> x] : l \in {"LABEL_0", "LABEL_1"}, x \in Scores}
    \cup {[Chat(TRUE) EXCEPT !.model = m] : m \in {"unavailable", "raises"}}

\* the sessions on transports that stay up, over any classifier
AnalyzeNext ==
    \/ \E w \in LoopConns :
          \/ \E p \in Analysed : HReceivePayload(w, p)
          \/ HAfterCheck(w) \/ HUnmutedRoom(w) \/ HAfterUnmuted(w)
          \/ HRejected(w)
          \/ HAfterProcess(w) \/ HSaved(w) \/ HAfterChat(w)
          \/ HWarned(w) \/ HMutedRoom(w) \/ HAfterMuted(w)
          \/ CSelect(w) \/ CCommit(w)
          \/ PSelect(w) \/ PCommit(w) \/ PRefresh(w)
          \/ BResume(w)
    \/ LoopTick

SpecAnalyze == InitActive /\ [][AnalyzeNext]_vars

\* Three sessions have gone through lines 31-91 and wait in receive_text:
\* two of alice and one of bob, in one room
InitLeave ==
    /\ ServiceStarts(<<>>)
    /\ manager = Connect(Connect(Connect(NewManager, "w1", "alice", "general"),
                                 "w2", "alice", "general"),
                         "w3", "bob", "general")
    /\ store = JoinRoom(JoinRoom(NewStore, "alice", "general"),
                        "bob", "general")
    /\ sess = [c \in Conns |->
                  [NoSession EXCEPT !.pc = "recv",
                                    !.username = UserOf[c],
                                    !.room_id = "general"]]
    /\ ws = [c \in Conns |-> "open"]
    /\ inbox = [c \in Conns |-> <<>>]
    /\ bc = [t \in Procs |-> NoBroadcast]
    /\ nev = 0
    /\ trace = [c \in Conns |-> NoTrace]
    /\ npay = 0

LeaveDrop(c) ==
    /\ Cardinality({x \in Conns : ws[x] = "closed"}) < MaxLeaves
    /\ TransportDrop(c)

\* clients go away and their sessions leave, while the others chat
LeaveNext ==
    \E w \in Conns :
        \/ LeaveDrop(w)
        \/ HReceiveDisconnect(w) \/ HLeft(w)
        \/ BResume(w)

SpecLeave == InitLeave /\ [][LeaveNext]_vars

\* the connections that open while a behaviour of the entry runs
EntryConns == {"w1", "w2"}

\* clients open sockets with any token; those let in go on to the loop
EntryNext ==
    \/ \E w \in EntryConns :
          \/ \E token \in Tokens : HOpen(w, token, "general")
          \/ HAuthed(w) \/ HRefused(w) \/ HAccepted(w) \/ HConnected(w)
          \/ CSelect(w) \/ CCommit(w)
          \/ HEntryChecked(w) \/ HEntryUnmuted(w) \/ HEntryStatus(w)
          \/ HJoinSelect(w) \/ HJoinCommit(w) \/ HEntered(w)
          \/ BResume(w)
          \/ LoopDrop(w)
    \/ LoopTick

\* no connection yet; alice has never been in the room, or she has, in
\* an earlier session, and her row is absent or muted
InitEntry ==
    /\ \E joined \in BOOLEAN :
          /\ store = IF joined THEN JoinRoom(NewStore, "alice", "general")
                     ELSE NewStore
          /\ \E tbl \in {<<>>} \cup
                         (IF joined
                          THEN {<<MutedRow("alice", "general", 0)>>}
                          ELSE {}) :
                ServiceStarts(tbl)
    /\ manager = NewManager
    /\ ws = [c \in Conns |-> "new"]
    /\ inbox = [c \in Conns |-> <<>>]
    /\ bc = [t \in Procs |-> NoBroadcast]
    /\ nev = 0
    /\ sess = [c \in Conns |-> NoSession]
    /\ trace = [c \in Conns |-> NoTrace]
    /\ npay = 0

SpecEntry == InitEntry /\ [][EntryNext]_vars

\* the unmute route served by two tasks, for members whose clients may go
\* away
RouteNext ==
    \/ \E t \in Tasks :
          \/ \E caller \in Users, r \in Rooms : RUnmute(t, caller, r, "alice")
          \/ RGotRoom(t) \/ RAfterUnmute(t) \/ RAfterBroadcast(t)
          \/ USelect(t) \/ UCommit(t)
          \/ BResume(t)
    \/ \E c \in LoopConns : LoopDrop(c)

\* the members are connected; alice's row is absent, not muted, or muted
InitRoute ==
    ActiveStarts({<<>>,
                  <<WarnedRow("alice", "general", TOXIC_THRESHOLD - 1)>>,
                  <<MutedRow("alice", "general", 0)>>})

SpecRoute == InitRoute /\ [][RouteNext]_vars

(* ------------------- claims on the mute service ------------------------ *)

Fresh(rec) == rec.consecutive_toxic_count = 0 /\ ~ rec.is_muted

\* the entries i..j of a run that are toxic
ToxicIn(r, i, j) == {n \in i..j : r[n].toxic}

C2_NoLostIncrement ==
    \A k \in Keys :
        (/\ \A t \in Procs :
               ~ (Key(call[t]) = k /\ call[t].pc \in {"p_select", "p_commit",
                                                      "p_refresh"})
         /\ Cardinality(SelectUserMute(user_mutes, k[1], k[2])) = 1
         /\ stats[k].calm = 0
         /\ stats[k].unmutes = 0)
        => LET rec == Rec(k[1], k[2])
               n == stats[k].toxic
           IN  /\ rec.warning_count = rec0[k].warning_count + n
               /\ stats[k].muted
                     = rec.total_mute_count - rec0[k].total_mute_count
               /\ stats[k].muted
                     = (rec0[k].consecutive_toxic_count + n) \div 5

C4_ExpiryReportedOnce ==
    \A k \in Keys : \A i \in DOMAIN checks[k] :
        LET e == checks[k][i]
        IN  /\ (e.pre.is_muted /\ e.now >= e.pre.mute_expires_at)
               => /\ ~ e.is_muted /\ e.just_unmuted
                  /\ ~ e.post.is_muted
                  /\ e.post.mute_expires_at = None
                  /\ e.post.consecutive_toxic_count = 0
            /\ e.just_unmuted
               => \A j \in (i + 1)..Len(checks[k]) :
                     ~ checks[k][j].just_unmuted

C4_Witness ==
    \E k \in Keys : \E i, j \in DOMAIN checks[k] :
        /\ i < j
        /\ checks[k][i].pre.is_muted
        /\ checks[k][i].now = checks[k][i].pre.mute_expires_at
        /\ checks[k][i].just_unmuted
        /\ ~ checks[k][j].just_unmuted

\* C5: of the check_mute_status calls that run concurrently on one key after
\* a mute has expired, exactly one reports just_unmuted = true for that
\* expiry.
C5_OneReportPerExpiry ==
    \A k \in Keys :
        Cardinality({i \in DOMAIN checks[k] : checks[k][i].just_unmuted}) <= 1

(* --------------- claims on the connection manager ---------------------- *)

Failed(b) == Range(b.disconnected)

\* C6: when sends to members of a room fail during broadcast_to_room, the
\* call still delivers the event to every other member and does not raise,
\* and when it returns each failing connection is out of the room's member
\* set, the global list and the identity map, while the registration of the
\* others is as it was.
C6_FailedSendIsolated ==
    [][\A t \in Procs :
          InFlight(t)
          => /\ bc'[t].pc # "raised"
             /\ bc'[t].pc = "done"
                => LET b == bc'[t]
                   IN  /\ b.delivered = b.members0 \ Failed(b)
                       /\ \A c \in Failed(b) :
                             /\ c \notin RoomsMembers(manager', b.room_id)
                             /\ c \notin Range(manager'.active_connections)
                             /\ c \notin DOMAIN manager'.connection_usernames
                       /\ \A c \in Conns \ Failed(b) :
                             /\ RoomsOf(manager', c) = RoomsOf(manager, c)
                             /\ (c \in Range(manager'.active_connections))
                                   = (c \in Range(manager.active_connections))
                             /\ (c \in DOMAIN manager'.connection_usernames)
                                   = (c \in DOMAIN manager.connection_usernames)
      ]_vars

C6_Witness ==
    \E t \in Procs :
        /\ bc[t].pc = "done"
        /\ Cardinality(bc[t].members0) = 3
        /\ Cardinality(Failed(bc[t])) = 1
        /\ bc[t].delivered = bc[t].members0 \ Failed(bc[t])
        /\ \A c \in bc[t].delivered : bc[t].ev \in Range(inbox[c])
        /\ \A c \in Failed(bc[t]) : ~ Registered(manager, c)
        /\ \A c \in bc[t].delivered : Registered(manager, c)

\* C7: a broadcast_to_room call suspended at a send while another task runs
\* connect or disconnect on the same room completes without raising, and
\* delivers the event to every connection that was a member when it began
\* and is one until it ends (and whose send does not fail).
C7_BroadcastSurvivesMembershipChange ==
    \A t \in Procs :
        /\ bc[t].pc # "raised"
        /\ bc[t].pc = "done"
           => (bc[t].stayed \ Failed(bc[t])) \subseteq bc[t].delivered

\* C8: of two broadcast_to_room events of one room, the one issued first
\* reaches every member that receives both before the other, from whichever
\* tasks the two calls come.
C8_PerRoomOrder ==
    \A c \in Conns : \A i, j \in DOMAIN inbox[c] :
        (i < j /\ inbox[c][i].room_id = inbox[c][j].room_id)
        => inbox[c][i].seq < inbox[c][j].seq

(* ------------------- claims on the message session --------------------- *)

\* C9: when check_mute_status reports is_muted = true for a payload, the
\* session sends one mute_rejected event to the sender and does nothing
\* else for it: no classifier, no process_message_toxicity, no
\* save_message, no broadcast, no write to the record (only the error
\* event of line 237 is attempted when the send itself fails).
C9_MutedPayloadRejected ==
    \A w \in Conns :
        trace[w].muted
        => /\ trace[w].ops \in
                 {<<<<"call", "check_mute_status">>,
                    <<"send", "mute_rejected">>>>,
                  <<<<"call", "check_mute_status">>,
                    <<"send", "mute_rejected">>, <<"send", "error">>>>}
           /\ Len(trace[w].ops) = 3 => trace[w].failed
           /\ trace[w].got = IF trace[w].failed THEN <<>>
                             ELSE <<"mute_rejected">>
           /\ call[w].pc = "done" /\ call[w].result.op = "check"
           /\ ~ call[w].result.just_unmuted /\ call[w].id = 0

C9_Witness ==
    \E w \in Conns :
        /\ trace[w].muted
        /\ sess[w].pc = "recv"
        /\ trace[w].got = <<"mute_rejected">>
        /\ Rec(sess[w].username, sess[w].room_id).is_muted

\* C10: the only chat event of a user that is broadcast to a room while the
\* user's record is muted and the mute unexpired is the one whose own
\* process_message_toxicity call returned muted, in every interleaving of
\* the user's sessions.
C10_NoChatWhileMuted ==
    \A w \in Conns :
        (<<"broadcast", "chat">> \in Range(trace[w].ops) /\ trace[w].chat_muted)
        => trace[w].action = "muted"

(* ------------------------- claims on unmute_user ----------------------- *)

\* an unmute_user call of task t commits in this step
UnmuteCommits(t) == call[t].pc = "u_commit" /\ call[t]'.pc = "done"

\* the row is muted and its mute has not expired at time tm
MutedAt(rec, tm) ==
    rec.is_muted /\ rec.mute_expires_at # None /\ tm < rec.mute_expires_at

\* what unmute_user does to a muted, unexpired record
C11_UnmuteClears ==
    \A t \in Tasks :
       LET pre == user_mutes[call[t].id]
           post == user_mutes'[call[t].id]
       IN  (UnmuteCommits(t) /\ MutedAt(pre, now)) =>
              /\ call[t]'.result = UnmuteResult(TRUE)
              /\ ~ post.is_muted
              /\ post.muted_at = None /\ post.mute_expires_at = None
              /\ post.consecutive_toxic_count = 0
              /\ post.warning_count = pre.warning_count
              /\ post.total_mute_count = pre.total_mute_count

\* the first payload received after an unmute_user call on the sender's
\* muted, unexpired record returned true
NextAfterUnmute(w) ==
    /\ trace[w].since = 1
    /\ \E t \in Unmuters(sess[w].username, sess[w].room_id) :
          MutedAt(call[t].loaded, call[t].now)

\* the loop body has got past the branch on is_muted
Branched(w) == sess[w].pc \notin {"check", "sent_unmuted", "b_unmuted"}

C11_NextPayloadProcessed ==
    \A w \in Conns :
       (NextAfterUnmute(w) /\ sess[w].pc # "check") =>
          /\ ~ trace[w].muted
          /\ <<"send", "mute_rejected">> \notin Range(trace[w].ops)
          /\ Branched(w) =>
                <<"call", "process_message_toxicity">> \in Range(trace[w].ops)

\* C11: unmute_user on a muted record, called before mute_expires_at,
\* returns true, sets is_muted false, clears muted_at and mute_expires_at,
\* resets consecutive_toxic_count to 0 and leaves warning_count and
\* total_mute_count as they were; the next payload of that user is processed
\* and not rejected.
C11_UnmuteThenAccepted ==
    [][C11_UnmuteClears]_vars /\ [] C11_NextPayloadProcessed

C11_Witness ==
    \E w \in Conns :
       /\ NextAfterUnmute(w)
       /\ <<"broadcast", "chat">> \in Range(trace[w].ops)

\* unmute_user of task t runs its selects in this step
UnmuteSelects(t) == call[t].pc = "u_select" /\ call[t]'.pc # "u_select"

\* the key has no record, or one that is not muted
NotMuted(u, r) ==
    LET ids == SelectUserMute(user_mutes, u, r)
    IN  ids = {} \/ \A i \in ids : ~ user_mutes[i].is_muted

C12_FalseAndNoWrite ==
    \A t \in Tasks :
       (UnmuteSelects(t) /\ NotMuted(call[t].user, call[t].room)) =>
          /\ call[t]'.pc = "done"
          /\ call[t]'.result = UnmuteResult(FALSE)
          /\ user_mutes' = user_mutes

\* the route of task t has gone on from an unmute_user that returned false
RefusedUnmute(t) ==
    /\ http[t].route = "unmute" /\ http[t].pc \notin {"idle", "unmute"}
    /\ call[t].pc = "done" /\ call[t].result = UnmuteResult(FALSE)

C12_ErrorAndNoEvent ==
    \A t \in Tasks :
       RefusedUnmute(t) =>
          /\ http[t].pc = "done" /\ http[t].status >= 400
          /\ bc[t] = NoBroadcast
          /\ \A c \in Conns : \A i \in DOMAIN inbox[c] :
                inbox[c][i].type = "unmuted" =>
                   \E t2 \in Tasks \ {t} : bc[t2].ev = inbox[c][i]

LastLeaves(c, r) ==
    /\ RoomsMembers(manager, r) = {c}
    /\ c \notin RoomsMembers(manager', r)

\* room r gets its key in this step
RoomCreated(r) == r \notin DOMAIN manager.rooms /\ r \in DOMAIN manager'.rooms

\* C13: disconnecting the last member of room R removes the key R from the
\* room map, after which get_room_users(R) is the empty list and R has still
\* no key; the first connect to an absent room creates it with exactly the
\* connecting connection as its member set.
C13_RoomLifecycle ==
    [][\A r \in Rooms :
          /\ \A c \in Conns :
                LastLeaves(c, r) =>
                   /\ r \notin DOMAIN manager'.rooms
                   /\ GetRoomUsers(manager', r) = <<>>
          /\ RoomCreated(r) =>
                \E c \in Conns : /\ ws[c] = "new" /\ ws'[c] = "open"
                                  /\ manager'.rooms[r] = {c}]_vars

\* a connection that has connected and disconnected, and no room is left
C13_Witness ==
    /\ DOMAIN manager.rooms = {}
    /\ \E c \in Conns : ws[c] = "open" /\ ~ Registered(manager, c)

\* C14: disconnect(conn, room) is safe to repeat: the first call on a
\* registered connection returns its username; a further call on the same
\* connection, or a call on a connection that was never registered, returns
\* "Unknown" and leaves the global list, the room map and the identity map
\* as they are.
C14_DisconnectRepeats ==
    \A c \in Conns, r \in Rooms :
       LET first == Disconnect(manager, c, r)
           again == Disconnect(first.m, c, r)
       IN  /\ c \in DOMAIN manager.connection_usernames =>
                 first.username = manager.connection_usernames[c]
           /\ again.username = "Unknown"
           /\ again.m = first.m
           /\ ~ Registered(manager, c) =>
                 first.username = "Unknown" /\ first.m = manager

\* one connection has connected and been disconnected, another is a member
C14_Witness ==
    \E c, c2 \in Conns :
       /\ ws[c] = "open" /\ ~ Registered(manager, c)
       /\ ws[c2] = "new" /\ ~ Registered(manager, c2)
       /\ \E c3 \in Conns : RoomsOf(manager, c3) # {}

(* ------------------- claims on the session's entry --------------------- *)

\* the session of w is one that get_ws_user gave no user
Unauthorized(w) == sess[w].pc # "new" /\ sess[w].username = NoUser

\* a step of the session of w
SessionStep(w) == sess[w]' # sess[w]

C15_RefusedTouchesNothing ==
    \A w \in Conns :
       (SessionStep(w) /\ (Unauthorized(w) \/ Unauthorized(w)')) =>
          UNCHANGED <<manager, store, user_mutes, inbox, bc, call>>

C15_RefusedAndGone ==
    \A w \in Conns :
       Unauthorized(w) =>
          /\ sess[w].pc \in {"auth", "refused", "ended"}
          /\ ~ Registered(manager, w)
          /\ trace[w].got = <<>>
          /\ bc[w] = NoBroadcast /\ call[w] = IdleCall
          /\ sess[w].pc # "auth" =>
                /\ trace[w].ops = <<<<"close", "4003">>>>
                /\ ws[w] = "closed"

\* C15: when get_ws_user yields no user, websocket_endpoint closes the
\* transport with code 4003 and returns before any mutation of the registry:
\* the global list, the room map, the identity map, the durable membership
\* and every record are as before, and nothing is sent or broadcast.
C15_UnauthorizedRefused ==
    [][C15_RefusedTouchesNothing]_vars /\ [] C15_RefusedAndGone

\* a refused session has returned while another connection is in the room
C15_Witness ==
    \E w, w2 \in Conns :
       /\ Unauthorized(w) /\ sess[w].pc = "ended"
       /\ sess[w2].pc = "recv" /\ ws[w2] = "open"
\* the session has taken a frame in and its transport is up
TookPayload(w) == sess[w].payload # NoPayload /\ ws[w] = "open"

\* C16: no inbound frame is fatal to a session: whatever the client sent (no
\* JSON, JSON that is no object, an object without content, content of a
\* length outside 1..4096), the session goes on in its loop, registered in
\* its room, and sends its client no error event
C16_NoPayloadFatal ==
    \A w \in LoopConns :
        TookPayload(w) =>
            /\ sess[w].pc # "crashed"
            /\ sess[w].room_id \in DOMAIN manager.rooms
            /\ w \in manager.rooms[sess[w].room_id]
            /\ "error" \notin Range(trace[w].got)

\* save_message has failed in the iteration the session is in or has ended
SaveFailed(w) == trace[w].saved = "failed"

\* the iteration of the session is over
BackInLoop(w) == sess[w].pc = "recv"

\* the step in which save_message returns from a failure
SaveFails(w) == trace[w].saved # "failed" /\ trace'[w].saved = "failed"

C17_RecordKept == \A w \in LoopConns : SaveFails(w) => user_mutes' = user_mutes

C17_PipelineGoesOn ==
    \A w \in LoopConns :
        SaveFailed(w) =>
            /\ <<"broadcast", "chat">> \in Range(trace[w].ops)
            /\ "error" \notin Range(trace[w].got)
            /\ sess[w].pc \notin {"sent_error", "crashed", "leave"}
            /\ BackInLoop(w) =>
                   /\ trace[w].action = "warning" =>
                          "warning" \in Range(trace[w].got)
                   /\ trace[w].action = "muted" =>
                          /\ "muted" \in Range(trace[w].got)
                          /\ <<"broadcast", "muted">> \in Range(trace[w].ops)

\* C17: a failure of save_message for an accepted payload does not reach the
\* session: the chat event is broadcast all the same, the warning or muted
\* notices that the record result calls for are sent, the sender gets no
\* error event, and the update of user_mutes made for the payload stays
C17_SaveFailureSwallowed ==
    [][C17_RecordKept]_vars /\ [] C17_PipelineGoesOn

C17_Witness ==
    \E w \in LoopConns :
        /\ SaveFailed(w) /\ BackInLoop(w)
        /\ trace[w].action = "muted"
        /\ "muted" \in Range(trace[w].got)
        /\ Rec(sess[w].username, sess[w].room_id).is_muted

\* the session has put its payload to a classifier that is not there or
\* that raises
Degraded(w) ==
    /\ sess[w].payload.model \in {"unavailable", "raises"}
    /\ <<"call", "analyze">> \in Range(trace[w].ops)

\* the step in which the process_message_toxicity call of a session commits
ProcessCommits(w) ==
    /\ sess[w].pc = "process"
    /\ call[w].pc = "p_commit" /\ call'[w].pc = "p_refresh"

Counters(rec) ==
    <<rec.warning_count, rec.consecutive_toxic_count, rec.total_mute_count>>

C18_CountersStay ==
    \A w \in LoopConns :
        Degraded(w) /\ ProcessCommits(w) =>
            Counters(Rec(sess[w].username, sess[w].room_id))'
                = Counters(Rec(sess[w].username, sess[w].room_id))

C18_ProcessedAsClean ==
    \A w \in LoopConns :
        Degraded(w) =>
            /\ Analyze(sess[w].payload) = GetDefaultScores
            /\ ~sess[w].is_toxic
            /\ sess[w].pc \notin {"sent_error", "crashed", "leave"}
            /\ "error" \notin Range(trace[w].got)
            /\ sess[w].pc = "save" => call[w].result.action = "none"
            /\ BackInLoop(w) =>
                   /\ <<"broadcast", "chat">> \in Range(trace[w].ops)
                   /\ trace[w].action = "none"
                   /\ Range(trace[w].got) \cap {"warning", "muted"} = {}

\* C18: when the classifier is unavailable or raises, analyze returns the
\* default scores (0, not toxic, level "unknown") and raises nothing, so the
\* payload goes through as a clean one: process_message_toxicity returns
\* action none, the counters of the sender's row do not move, and the chat
\* event is broadcast
C18_ClassifierDegrades ==
    [][C18_CountersStay]_vars /\ [] C18_ProcessedAsClean

C18_Witness ==
    \E w \in LoopConns :
        /\ Degraded(w) /\ BackInLoop(w)
        /\ sess[w].payload.model = "raises"
        /\ <<"broadcast", "chat">> \in Range(trace[w].ops)
        /\ Rec(sess[w].username, sess[w].room_id).consecutive_toxic_count = 4

\* one half, in 1/10000
Half == 5000

\* the session's process_message_toxicity call is about to commit
AboutToCommit(w) == sess[w].pc = "process" /\ call[w].pc = "p_commit"

\* what the call about to commit has done to the row it loaded
Advanced(w) ==
    /\ call[w].obj.warning_count = call[w].loaded.warning_count + 1
    /\ \/ call[w].obj.consecutive_toxic_count
              = call[w].loaded.consecutive_toxic_count + 1
       \/ call[w].action = "muted"

\* C19 as stated: is_toxic is true exactly when the score is at least one
\* half, and a payload scored one half advances the sender's count
C19_ToxicFromHalf ==
    \A w \in LoopConns :
        AboutToCommit(w) =>
            /\ sess[w].is_toxic
                   <=> Analyze(sess[w].payload).toxicity >= Half
            /\ Analyze(sess[w].payload).toxicity >= Half => Advanced(w)

\* C19, amended: is_toxic is true exactly when the score, rounded to four
\* decimals, is above one half; a payload scored one half is not toxic and
\* leaves the sender's row as it was loaded
C19_ToxicAboveHalf ==
    \A w \in LoopConns :
        AboutToCommit(w) =>
            /\ sess[w].is_toxic
                   <=> Analyze(sess[w].payload).toxicity > Half
            /\ Analyze(sess[w].payload).toxicity > Half => Advanced(w)
            /\ Analyze(sess[w].payload).toxicity <= Half =>
                   call[w].obj = call[w].loaded

C19_Witness ==
    \E w \in LoopConns :
        /\ AboutToCommit(w)
        /\ Analyze(sess[w].payload).toxicity = Half
        /\ ~sess[w].is_toxic
        /\ call[w].obj = call[w].loaded

\* a muted row carries both timestamps, five minutes apart
WellMuted(rec) ==
    rec.is_muted =>
        /\ rec.muted_at # None /\ rec.mute_expires_at # None
        /\ rec.mute_expires_at = rec.muted_at + MuteSeconds

\* an unmuted row carries no timestamp
WellCleared(rec) ==
    ~ rec.is_muted => rec.muted_at = None /\ rec.mute_expires_at = None

\* the step in which the automatic unmute of check_mute_status commits
AutoUnmuteCommits(t) == call[t].pc = "c_commit" /\ call[t]'.pc = "done"

C20_ClearedByUnmute ==
    \A t \in Tasks :
        AutoUnmuteCommits(t) \/ UnmuteCommits(t) =>
            WellCleared(user_mutes'[call[t].id])

C20_MutedRows == \A i \in DOMAIN user_mutes : WellMuted(user_mutes[i])

\* the row has been muted and unmuted: is_muted goes back to false in
\* check_mute_status and unmute_user only
Unmuted(rec) == ~ rec.is_muted /\ rec.total_mute_count > 0

C20_UnmutedRows ==
    \A i \in DOMAIN user_mutes :
        Unmuted(user_mutes[i]) => WellCleared(user_mutes[i])

\* the commit of an automatic or a manual unmute leaves the row cleared, and
\* a muted row is well formed in every state
C20_UnmuteStepClears == [][C20_ClearedByUnmute]_vars /\ [] C20_MutedRows

\* C20: in every state a row with is_muted true has muted_at and
\* mute_expires_at set, the second five minutes after the first; and a row
\* with is_muted false after an automatic or a manual unmute has both
\* cleared
C20_MuteTimestamps == C20_MutedRows /\ C20_UnmutedRows

\* no process_message_toxicity call on the key has committed without having
\* returned yet
Recorded(k) ==
    \A t \in Procs : ~ (Key(call[t]) = k /\ call[t].pc = "p_refresh")

C21_NeverDecreases ==
    \A k \in Keys :
        Rec(k[1], k[2])'.warning_count >= Rec(k[1], k[2]).warning_count

C21_CountsToxicEvents ==
    \A k \in Keys :
        Recorded(k) =>
            Rec(k[1], k[2]).warning_count
                = rec0[k].warning_count + stats[k].toxic

\* C21: warning_count of a key's record never decreases, whatever
\* process_message_toxicity, check_mute_status and unmute_user calls are
\* made; no mute, expiry or manual unmute resets it; and it is the number of
\* toxic events recorded for the key, those recorded while it was muted
\* included
C21_WarningCountTotal ==
    [][C21_NeverDecreases]_vars /\ [] C21_CountsToxicEvents

\* the step in which a process_message_toxicity call of the task commits
ToxicityCommits(t) == call[t].pc = "p_commit" /\ call[t]'.pc = "p_refresh"

\* the step is one of the three that reset the count
ResetStep ==
    \E t \in Procs :
        \/ ToxicityCommits(t) /\ call[t].action = "muted"
        \/ AutoUnmuteCommits(t)
        \/ UnmuteCommits(t)

\* the step records a toxic event below the threshold
WarningStep ==
    \E t \in Procs : ToxicityCommits(t) /\ call[t].action = "warning"

\* consecutive_toxic_count of row i before the step, 0 for a row the step
\* inserts
CountBefore(i) ==
    IF i \in DOMAIN user_mutes THEN user_mutes[i].consecutive_toxic_count
    ELSE 0

C22_CountSteps ==
    \A i \in DOMAIN user_mutes' :
        LET a == CountBefore(i)
            b == user_mutes'[i].consecutive_toxic_count
        IN  \/ b = a
            \/ b = a + 1 /\ WarningStep
            \/ b = 0 /\ ResetStep

\* C22: consecutive_toxic_count of a record goes to 0 in three actions only:
\* the process_message_toxicity call that triggers a mute, the
\* check_mute_status call that unmutes an expired mute, and a successful
\* unmute_user; every other action adds exactly 1 to it (a toxic event below
\* the threshold) or leaves it as it is
C22_ResetOnlyByMuteOrUnmute == [][C22_CountSteps]_vars

\* the session has come through the entry and is in its loop, no payload
\* received yet
Entered(w) ==
    /\ sess[w].pc = "recv"
    /\ trace[w].ops # <<>>
    /\ Head(trace[w].ops) = <<"call", "connect">>

\* what a session does on its way into the loop
EntryOps(unmuted, kind) ==
    <<<<"call", "connect">>, <<"call", "check_mute_status">>>>
    \o (IF unmuted THEN <<<<"send", "unmuted">>>> ELSE <<>>)
    \o <<<<"send", "mute_status">>, <<"call", "join_room">>,
         <<"broadcast", kind>>>>

C23_EntryOrder ==
    \A w \in EntryConns :
        Entered(w) =>
            /\ \E kind \in {"join", "sync"} :
                   trace[w].ops = EntryOps(call[w].result.just_unmuted, kind)
            /\ trace[w].got = IF call[w].result.just_unmuted
                              THEN <<"unmuted", "mute_status">>
                              ELSE <<"mute_status">>
            /\ ws[w] = "open" =>
                   sess[w].username \in Range(trace[w].users)

\* the step in which join_room returns and the session begins its broadcast
C23_JoinOrSync ==
    \A w \in EntryConns :
        (sess[w].pc \in {"join", "join_commit"} /\ sess[w]'.pc = "b_join") =>
            LET pair == <<sess[w].username, sess[w].room_id>>
                new == pair \notin store.user_rooms
                       /\ pair \in store'.user_rooms
            IN  /\ bc'[w].ev.type = IF new THEN "join" ELSE "sync"
                /\ bc'[w].ev.room_id = sess[w].room_id
                /\ ws[w] = "open" =>
                       /\ w \in RoomsMembers(manager, sess[w].room_id)
                       /\ sess[w].username \in Range(trace'[w].users)

\* the users of the join or sync event include the connecting user
C23_ListsItself ==
    \A w \in EntryConns :
        Entered(w) => sess[w].username \in Range(trace[w].users)

\* C23 as stated: an authenticated session on its way into the loop
\* registers the connection first, then sends its client one mute_status
\* event (after an unmuted notice exactly when check_mute_status reported
\* just_unmuted), then broadcasts one event to the room: join when join_room
\* reported a new membership, sync otherwise, with the connecting user among
\* its users
C23_EntrySequenceAsStated ==
    [][C23_JoinOrSync]_vars /\ [] (C23_EntryOrder /\ C23_ListsItself)

\* C23, amended: the same, the connecting user being among the users of the
\* event when its client is still there as the event is built
C23_EntrySequence == [][C23_JoinOrSync]_vars /\ [] C23_EntryOrder

C23_Witness ==
    \E w \in EntryConns :
        /\ Entered(w)
        /\ trace[w].got = <<"unmuted", "mute_status">>
        /\ <<"broadcast", "sync">> \in Range(trace[w].ops)
        /\ Len(trace[w].users) = 2

\* the step in which receive_text raises WebSocketDisconnect
ReceiveFails(w) == sess[w].pc = "recv" /\ sess[w]'.pc = "leave"

\* the session has left its loop through the handler of line 239
Left(w) == sess[w].pc \in {"leave", "ended"}

C24_DisconnectThenLeave ==
    \A w \in Conns :
        /\ ReceiveFails(w) =>
               LET d == Disconnect(manager, w, sess[w].room_id)
               IN  /\ ~ Registered(d.m, w)
                   /\ bc'[w].ev.type = "leave"
                   /\ bc'[w].ev.room_id = sess[w].room_id
                   /\ bc'[w].members0 = RoomsMembers(d.m, sess[w].room_id)
                   /\ trace'[w].users = GetRoomUsers(d.m, sess[w].room_id)
                   /\ Len(trace'[w].users)
                          = Cardinality(RoomsMembers(manager, sess[w].room_id)
                                        \ {w})
        /\ Left(w) => /\ sess[w]'.pc # "recv"
                      /\ ~ Registered(manager', w)

C24_LeaveDelivered ==
    \A w \in Conns :
        sess[w].pc \in {"leave", "ended"} =>
            /\ bc[w].ev.type = "leave"
            /\ bc[w].pc \in {"done", "raised"} =>
                   (bc[w].stayed \ Failed(bc[w])) \subseteq bc[w].delivered

\* C24: when receive fails on a closed transport the session calls
\* disconnect once, after which the connection is in no room and not in the
\* global list; then one leave event, its users without the entry of the
\* connection, goes to the members that remain; and the session does not
\* come back to its loop
C24_TransportClosed ==
    [][C24_DisconnectThenLeave]_vars /\ [] C24_LeaveDelivered

\* a session whose task has ended, after a send of its own failed on a closed
\* transport
EndedOnSend(w) ==
    /\ sess[w].pc \in {"ended", "crashed"}
    /\ trace[w].failed

\* C25: a session that ends because one of its sends failed leaves no
\* phantom member: its connection is in no room's member set, not in the
\* global list and not in the identity map
C25_NoPhantomMember ==
    \A w \in Conns : EndedOnSend(w) => ~ Registered(manager, w)

(* manager.py 124-142: broadcast_all *)

\* the room_id of the record of a call of broadcast_all, which has no room
Everyone == "*"

\* 140-142: for conn in disconnected: if conn in self.active_connections:
\* self.active_connections.remove(conn)
RECURSIVE RemoveEach(_, _)
RemoveEach(active_connections, disconnected) ==
    IF disconnected = <<>> THEN active_connections
    ELSE RemoveEach(RemoveFirst(active_connections, Head(disconnected)),
                    Tail(disconnected))

\* 132-142: one turn of `for connection in self.active_connections`: the
\* list iterator yields the element at its index and send_json runs up to
\* its await, or, the index past the end, the clean-up loop runs
IterateAll(t, b) ==
    LET L == manager.active_connections
    IN  IF b.pos >= Len(L)
        THEN /\ manager' = [manager EXCEPT !.active_connections =
                               RemoveEach(@, b.disconnected)]
             /\ bc' = [bc EXCEPT ![t] = [b EXCEPT !.pc = "done"]]
             /\ UNCHANGED inbox
        ELSE LET c == L[b.pos + 1]
                 ok == ws[c] = "open"
             IN  /\ manager' = manager
                 /\ bc' = [bc EXCEPT ![t] =
                              [b EXCEPT !.pc = "await_all", !.pos = @ + 1,
                                        !.delivered =
                                            IF ok THEN @ \cup {c} ELSE @,
                                        !.disconnected =
                                            IF ok THEN @ ELSE Append(@, c)]]
                 /\ inbox' = IF ok THEN [inbox EXCEPT ![c] = Append(@, b.ev)]
                             ELSE inbox

\* manager.broadcast_all, up to its first await
MBroadcastAll(t) ==
    /\ bc[t].pc \in {"idle", "done", "raised"}
    /\ nev < MaxBroadcasts
    /\ nev' = nev + 1
    /\ IterateAll(t, [NoBroadcast EXCEPT
                         !.pc = "await_all", !.room_id = Everyone,
                         !.ev = Event("chat", t, Everyone, nev + 1),
                         !.members0 = Range(manager.active_connections),
                         !.stayed = Range(manager.active_connections)])
    /\ UNCHANGED <<user_mutes, now, call, ncalls, rec0, http, store, run,
                   checks, stats, ws, sess, trace, npay>>

\* a broadcast_all resumes from the await of a send_json
BAllResume(t) ==
    /\ bc[t].pc = "await_all"
    /\ IterateAll(t, bc[t])
    /\ UNCHANGED <<user_mutes, now, call, ncalls, rec0, http, store, run,
                   checks, stats, ws, nev, sess, trace, npay>>

\* the manager called by one task at a time: connect, disconnect and
\* broadcast_all start when no broadcast_all is under way, and clients go
\* away at any moment
QuietAll == \A t \in Procs : bc[t].pc # "await_all"

AllNext ==
    \/ /\ QuietAll
       /\ \/ \E c \in Conns, r \in Rooms : MConnect(c, UserOf[c], r)
          \/ \E c \in Conns, r \in Rooms : MDisconnect(c, r)
          \/ \E t \in SeqTasks : MBroadcastAll(t)
    \/ \E t \in SeqTasks : BAllResume(t)
    \/ \E c \in Conns : TransportDrop(c)

SpecAll == InitMgr /\ [][AllNext]_vars

\* a call of broadcast_all that has returned
AllDone(t) == bc[t].pc = "done" /\ bc[t].room_id = Everyone

\* C26: broadcast_all isolates failures as broadcast_to_room does: when it
\* has returned, every connection of the list whose send did not fail has
\* been sent the event, and every connection whose send failed is gone from
\* the global list, from the member set of its room and from the identity
\* map
C26_AllIsolatesFailures ==
    \A t \in Procs :
        AllDone(t) =>
            /\ (bc[t].members0 \ Failed(bc[t])) \subseteq bc[t].delivered
            /\ \A c \in Failed(bc[t]) : ~ Registered(manager, c)

\* the first half of C26 alone: a failing connection does not stop the
\* delivery to the rest
C26_AllDelivers ==
    \A t \in Procs :
        AllDone(t) =>
            (bc[t].members0 \ Failed(bc[t])) \subseteq bc[t].delivered

(* ------------- routes/chat.py: DELETE /messages/{message_id} ----------- *)

\* the rows of the messages table when the requests come in: one message of
\* each user in the room general
StoredMessages ==
    {[id |-> 1, sender |-> "alice", room_id |-> "general"],
     [id |-> 2, sender |-> "bob", room_id |-> "general"]}

\* the ids a request may name: those of the rows and one of no row
MessageIds == {1, 2, 3}

\* select(Message).where(Message.id == message_id): the rows found
MessagesById(st, message_id) == {m \in st.messages : m.id = message_id}

\* what delete_message returns, True, as broadcast_to_room takes it for a
\* room_id: the key of no room
TrueAsRoom == "True"

\* routes/chat.py 149-157, services/chat.py 143-159: the request of an
\* authenticated user, delete_message up to the await of its select
RDelete(t, caller, message_id) ==
    /\ http[t].pc = "idle" /\ call[t].pc = "idle" /\ bc[t].pc = "idle"
    /\ http' = [http EXCEPT ![t] =
                    [NoRequest EXCEPT !.pc = "d_select", !.route = "delete",
                                      !.caller = caller,
                                      !.message_id = message_id]]
    /\ UNCHANGED <<user_mutes, now, call, ncalls, rec0, store, run, checks,
                   stats, manager, ws, inbox, bc, nev, sess, trace, npay>>

\* mutant: delete_message without its check of authorship (lines 165-168)
DSelected_AnyUser(t) ==
    LET h == http[t]
        found == MessagesById(store, h.message_id)
    IN  /\ h.pc = "d_select"
        /\ IF found = {}
           THEN Respond(t, 403)
           ELSE http' = [http EXCEPT ![t].pc = "d_commit"]
        /\ UNCHANGED <<user_mutes, now, call, ncalls, rec0, store, run, checks,
                       stats, manager, ws, inbox, bc, nev, sess, trace, npay>>

\* services/chat.py 159-171, routes/chat.py 159-168: the select has
\* returned.  No row, or a row of another sender: delete_message returns
\* False and the route answers 403.  Else session.delete, up to the await of
\* the commit.
DSelected(t) ==
    LET h == http[t]
        found == MessagesById(store, h.message_id)
    IN  /\ h.pc = "d_select"
        /\ IF found = {}
           THEN Respond(t, 403)
           ELSE IF \A m \in found : m.sender # h.caller
           THEN Respond(t, 403)
           ELSE http' = [http EXCEPT ![t].pc = "d_commit"]
        /\ UNCHANGED <<user_mutes, now, call, ncalls, rec0, store, run, checks,
                       stats, manager, ws, inbox, bc, nev, sess, trace, npay>>

\* services/chat.py 171-179, routes/chat.py 157-181: the commit.  The row
\* is deleted, delete_message returns True and the route hands that value to
\* broadcast_to_room as the room_id; or another request has deleted the row
\* since the select, the DELETE matches no row, and the exception is rolled
\* back and raised again, out of the route.
DCommit(t) ==
    LET h == http[t]
        found == MessagesById(store, h.message_id)
    IN  /\ h.pc = "d_commit"
        /\ IF found = {}
           THEN /\ Respond(t, 500)
                /\ UNCHANGED <<store, manager, inbox, bc, nev>>
           ELSE /\ store' = [store EXCEPT !.messages = @ \ found]
                /\ http' = [http EXCEPT ![t].pc = "d_broadcast"]
                /\ nev' = nev + 1
                /\ StartBroadcast(t, TrueAsRoom,
                                  Event("delete", "System", TrueAsRoom,
                                        nev + 1),
                                  manager, bc)
        /\ UNCHANGED <<user_mutes, now, call, ncalls, rec0, run, checks,
                       stats, ws, sess, trace, npay>>

\* routes/chat.py 181: broadcast_to_room has returned, and the route answers
\* 204; or it has raised, out of the route
RAfterDelete(t) ==
    /\ http[t].pc = "d_broadcast" /\ Finished(t)
    /\ Respond(t, IF bc[t].pc = "raised" THEN 500 ELSE 204)
    /\ UNCHANGED <<user_mutes, now, call, ncalls, rec0, store, run, checks,
                   stats, manager, ws, inbox, bc, nev, sess, trace, npay>>

\* the two moderation routes served by two tasks
ModerateNext ==
    \E t \in Tasks :
        \/ \E caller \in Users, r \in Rooms : RUnmute(t, caller, r, "alice")
        \/ RGotRoom(t) \/ RAfterUnmute(t) \/ RAfterBroadcast(t)
        \/ USelect(t) \/ UCommit(t)
        \/ BResume(t)
        \/ \E caller \in Users, id \in MessageIds : RDelete(t, caller, id)
        \/ DSelected(t) \/ DCommit(t) \/ RAfterDelete(t)

\* alice and bob are connected to general, each with a message there; alice
\* is muted or one toxic message from it
InitModerate ==
    /\ \E tbl \in {<<WarnedRow("alice", "general", TOXIC_THRESHOLD - 1)>>,
                   <<MutedRow("alice", "general", 0)>>} : ServiceStarts(tbl)
    /\ manager = Connect(Connect(NewManager, "w1", "alice", "general"),
                         "w2", "bob", "general")
    /\ store = [JoinRoom(JoinRoom(NewStore, "alice", "general"),
                         "bob", "general")
                   EXCEPT !.messages = StoredMessages]
    /\ sess = [c \in Conns |->
                  IF c \in LoopConns
                  THEN [NoSession EXCEPT !.pc = "recv",
                                         !.username = IF c = "w1" THEN "alice"
                                                      ELSE "bob",
                                         !.room_id = "general"]
                  ELSE NoSession]
    /\ ws = [c \in Conns |-> IF c \in LoopConns THEN "open" ELSE "new"]
    /\ inbox = [c \in Conns |-> <<>>]
    /\ bc = [t \in Procs |-> NoBroadcast]
    /\ nev = 0
    /\ trace = [c \in Conns |-> NoTrace]
    /\ npay = 0

SpecModerate == InitModerate /\ [][ModerateNext]_vars

\* a request the caller has no right to: an unmute in a room another user
\* created, the deletion of a message another user sent
NotCreator(h) ==
    /\ h.route = "unmute"
    /\ GetRoom(store, h.room_id) # NoRoom
    /\ GetRoom(store, h.room_id).creator # h.caller

NotAuthor(h) ==
    /\ h.route = "delete"
    /\ MessagesById(store, h.message_id) # {}
    /\ \A m \in MessagesById(store, h.message_id) : m.sender # h.caller

\* every step of such a request leaves the mute rows, the messages, the
\* manager and the broadcasts as they are, and the step that ends it answers
\* 403
C27_ForbiddenStep ==
    \A t \in Tasks :
        (http[t]' # http[t] /\ (NotCreator(http[t]') \/ NotAuthor(http[t]'))) =>
            /\ UNCHANGED <<user_mutes, store, manager, bc, inbox, nev>>
            /\ call[t]' = call[t]
            /\ http[t]'.pc \in {"get_room", "d_select", "done"}
            /\ http[t]'.pc = "done" => http[t]'.status = 403

Accepted(w) == <<"call", "process_message_toxicity">> \in Range(trace[w].ops)

\* what the loop body has done from that call on
RECURSIVE FromProcess(_)
FromProcess(ops) ==
    IF ops = <<>> THEN <<>>
    ELSE IF Head(ops) = <<"call", "process_message_toxicity">> THEN ops
    ELSE FromProcess(Tail(ops))

\* 181-227: the notices of an action
Notices(action) ==
    CASE action = "warning" -> <<<<"send", "warning">>>>
      [] action = "muted" -> <<<<"send", "muted">>, <<"broadcast", "muted">>>>
      [] OTHER -> <<>>

\* the loop body is over and the session waits for the next frame
IterationOver(w) == sess[w].pc = "recv" /\ trace[w].ops # <<>>

\* the body of an accepted payload, when it is over, has made these calls in
\* this order and no other
C28_OrderAndNotices ==
    \A w \in Conns :
        (Accepted(w) /\ IterationOver(w)) =>
            FromProcess(trace[w].ops) =
                <<<<"call", "process_message_toxicity">>,
                  <<"call", "save_message">>,
                  <<"broadcast", "chat">>>> \o Notices(call[w].result.action)

\* the muted event of the room carries the expiry of the mute just applied
C28_MutedCarriesExpiry ==
    \A w \in Conns :
        sess[w].pc = "b_muted" =>
            /\ call[w].result.mute_expires_at # None
            /\ call[w].result.mute_expires_at = call[w].now + MuteSeconds

\* C28: an accepted payload goes through process_message_toxicity,
\* save_message and the chat broadcast in this order, then the notices of
\* its action: one warning to the sender and nothing to the room; one muted
\* event to the sender, then one to the room with the new expiry; none
C28_PipelineOrder == C28_OrderAndNotices /\ C28_MutedCarriesExpiry

\* the row of a session's user as its check_mute_status selects it
Selecting(w) == sess[w].pc = "check" /\ call[w].pc = "c_select"

MuteOver(rec) ==
    rec.is_muted /\ rec.mute_expires_at # None /\ now >= rec.mute_expires_at

MuteRuns(rec) ==
    rec.is_muted /\ rec.mute_expires_at # None /\ now < rec.mute_expires_at

\* the select of check_mute_status on a mute that is over goes on to commit
\* the unmute; on one that still runs it returns is_muted
C29_ExpiryDecides ==
    \A w \in Conns :
        (Selecting(w) /\ call[w]' # call[w]) =>
            LET rec == Rec(sess[w].username, sess[w].room_id)
            IN  /\ MuteOver(rec) =>
                    /\ call[w]'.pc = "c_commit"
                    /\ ~ call[w]'.obj.is_muted
                /\ MuteRuns(rec) =>
                    /\ call[w]'.pc = "done"
                    /\ call[w]'.result.is_muted
                    /\ ~ call[w]'.result.just_unmuted

\* the step of the loop body that takes the result of check_mute_status
C29_ResultDecides ==
    \A w \in Conns :
        (sess[w].pc = "check" /\ sess[w]'.pc # "check") =>
            LET res == call[w].result
                first == <<<<"call", "check_mute_status">>>>
            IN  /\ call[w].pc = "done"
                /\ res.just_unmuted =>
                       /\ ~ res.is_muted
                       /\ SubSeq(trace[w]'.ops, 1, 2) =
                              first \o <<<<"send", "unmuted">>>>
                /\ res.is_muted =>
                       SubSeq(trace[w]'.ops, 1, 2) =
                           first \o <<<<"send", "mute_rejected">>>>

\* the loop body is over, none of the sends to its own client having failed:
\* after an unmuted notice the room was told and the payload went through
\* the whole pipeline; after a rejection nothing else happened
C29_UnmutedThenProcessed ==
    \A w \in Conns :
        (IterationOver(w) /\ ~ trace[w].failed) =>
            LET ops == trace[w].ops
            IN  /\ <<"send", "unmuted">> \in Range(ops) =>
                    ops = <<<<"call", "check_mute_status">>,
                            <<"send", "unmuted">>,
                            <<"broadcast", "unmuted">>,
                            <<"call", "analyze">>,
                            <<"call", "process_message_toxicity">>,
                            <<"call", "save_message">>,
                            <<"broadcast", "chat">>>>
                              \o Notices(trace[w].action)
                /\ <<"send", "mute_rejected">> \in Range(ops) =>
                    ops = <<<<"call", "check_mute_status">>,
                            <<"send", "mute_rejected">>>>

\* C29: a payload that arrives when the sender's mute is over (now >=
\* mute_expires_at) brings one unmuted event to the sender and one to the
\* room before anything else, and is then processed as any payload; one
\* that arrives strictly before mute_expires_at is rejected
C29_ExpiredMuteLifted ==
    /\ [][C29_ExpiryDecides /\ C29_ResultDecides]_vars
    /\ [] C29_UnmutedThenProcessed

\* every row's consecutive_toxic_count is below the threshold
C30_CountInRange ==
    \A i \in DOMAIN user_mutes :
        user_mutes[i].consecutive_toxic_count \in 0..(TOXIC_THRESHOLD - 1)

\* a process_message_toxicity call that has returned
Returned(t) ==
    /\ call[t].pc = "done"
    /\ call[t].result.op = "process"
    /\ ~ call[t].result.error

\* what the results carry
C30_ResultCounts ==
    \A t \in Procs :
        Returned(t) =>
            LET res == call[t].result
                n == res.consecutive_toxic_count
            IN  /\ res.action = "warning" =>
                    /\ 1 <= n /\ n < TOXIC_THRESHOLD
                    /\ res.warnings_until_mute = TOXIC_THRESHOLD - n
                /\ res.action = "muted" => n = 0

\* C30: between operations consecutive_toxic_count lies in 0..4; a warning
\* result carries a count n with 1 <= n < 5 and warnings_until_mute =
\* 5 - n, and a muted result carries the count 0, also when toxic events of
\* one key are processed concurrently
C30_CountBelowThreshold == C30_CountInRange /\ C30_ResultCounts

\* C31: whatever the interleaving of the calls, the table holds at most one
\* row per (user, room) key, so that every later lookup of the key finds a
\* single record
C31_OneRecordPerKey ==
    \A k \in Keys :
        Cardinality(SelectUserMute(user_mutes, k[1], k[2])) <= 1

\* total_mute_count of row i before the step, 0 for a row the step inserts
MutesBefore(i) ==
    IF i \in DOMAIN user_mutes THEN user_mutes[i].total_mute_count ELSE 0

\* the step is the commit of a process_message_toxicity call that mutes
MutingCommit(t) == ToxicityCommits(t) /\ call[t].action = "muted"

\* a step changes total_mute_count of a row only by adding 1, in the commit
\* of a muting call; and every such commit adds 1 to that of its row
C32_MuteCountSteps ==
    /\ \A i \in DOMAIN user_mutes' :
          LET a == MutesBefore(i)
              b == user_mutes'[i].total_mute_count
          IN  \/ b = a
              \/ b = a + 1 /\ \E t \in Procs : MutingCommit(t)
    /\ \A t \in Procs :
          MutingCommit(t) =>
              LET i == call[t]'.id
              IN  user_mutes'[i].total_mute_count = MutesBefore(i) + 1

\* a call decides to mute only on a toxic event that brings the count it
\* loaded to the threshold
C32_MutedAtThreshold ==
    \A t \in Procs :
        (call[t].pc \in {"p_commit", "p_refresh"}
            /\ call[t].action = "muted") =>
            /\ call[t].is_toxic
            /\ call[t].loaded.consecutive_toxic_count + 1 = TOXIC_THRESHOLD

\* C32: total_mute_count of a record never decreases; it grows by exactly 1
\* in each process_message_toxicity call that returns muted and in no other
\* action (the automatic and the manual unmute leave it as it is); and a
\* call returns muted only at a toxic event that brings
\* consecutive_toxic_count to the threshold
C32_TotalMuteCount == [][C32_MuteCountSteps]_vars /\ [] C32_MutedAtThreshold

(* ---------------------- the service on several keys -------------------- *)

\* service calls started in a behaviour of the callers on several keys
MaxKeyCalls == 3

\* the keys the callers act on: alice in two rooms, and bob in the first
SomeKeys == {<<"alice", "general">>, <<"alice", "lobby">>,
             <<"bob", "general">>}

\* alice is muted in general and has no row in lobby; bob is one toxic
\* message from the mute in general
InitKeys ==
    /\ ServiceStarts(<<MutedRow("alice", "general", 0),
                       WarnedRow("bob", "general", TOXIC_THRESHOLD - 1)>>)
    /\ store = NewStore
    /\ manager = NewManager
    /\ ws = [c \in Conns |-> "new"]
    /\ inbox = [c \in Conns |-> <<>>]
    /\ bc = [t \in Procs |-> NoBroadcast]
    /\ nev = 0
    /\ sess = [c \in Conns |-> NoSession]
    /\ trace = [c \in Conns |-> NoTrace]
    /\ npay = 0

\* calls of different tasks on different keys interleave at every await
KeyCall ==
    /\ ncalls < MaxKeyCalls
    /\ \E t \in Tasks, k \in SomeKeys :
          \/ \E toxic \in BOOLEAN : CallProcess(t, k[1], k[2], toxic)
          \/ CallCheck(t, k[1], k[2])
          \/ CallUnmute(t, k[1], k[2])

KeysNext == KeyCall \/ (\E t \in Tasks : Step(t)) \/ Tick

SpecKeys == InitKeys /\ [][KeysNext]_vars

\* the key of row i, before the step or as the step inserts it
KeyOfRow(tbl, i) == <<tbl[i].user, tbl[i].room>>

\* the step is a commit of a call on key k
CommitsOn(k) ==
    \E t \in Procs :
        /\ Key(call[t]) = k
        /\ call[t].pc \in {"p_commit", "c_commit", "u_commit"}
        /\ call[t]' # call[t]

\* a step changes or inserts a row only as the commit of a call on the key
\* of that row
C33_FrameStep ==
    \A i \in DOMAIN user_mutes' :
        (i \notin DOMAIN user_mutes \/ user_mutes'[i] # user_mutes[i]) =>
            /\ CommitsOn(KeyOfRow(user_mutes', i))
            /\ i \in DOMAIN user_mutes =>
                   KeyOfRow(user_mutes', i) = KeyOfRow(user_mutes, i)

\* check_mute_status reports a mute on the state of its own key alone: a key
\* reported muted has been muted itself
C33_OwnMuteOnly ==
    \A t \in Procs :
        (call[t].pc = "done" /\ call[t].result.op = "check"
            /\ call[t].result.is_muted) =>
            Rec(call[t].user, call[t].room).total_mute_count > 0

\* C33: the calls on a key leave the record of every other key as it is: a
\* user muted in one room is accepted in another, and another user of the
\* room is not affected
C33_KeysIsolated == [][C33_FrameStep]_vars /\ [] C33_OwnMuteOnly

\* alice is muted in general while a check finds her free in lobby and one
\* finds bob free in general, a call on her key in lobby having committed
C33_Witness ==
    /\ Rec("alice", "general").is_muted
    /\ SelectUserMute(user_mutes, "alice", "lobby") # {}
    /\ call["t1"].pc = "done" /\ call["t1"].result.op = "check"
    /\ Key(call["t1"]) = <<"alice", "lobby">>
    /\ ~ call["t1"].result.is_muted
    /\ call["t2"].pc = "done" /\ call["t2"].result.op = "check"
    /\ Key(call["t2"]) = <<"bob", "general">>
    /\ ~ call["t2"].result.is_muted

\* manager.py 162-164: get_connection_count
GetConnectionCount(m) == Len(m.active_connections)

\* the connections that are members of some room
Members(m) == UNION {m.rooms[r] : r \in DOMAIN m.rooms}

\* C34: between the calls of connect, disconnect, broadcast_to_room and
\* broadcast_all the registry is consistent: no room of the room map is
\* empty, every member of a room is in the global list and has a username,
\* and get_connection_count is the number of connections that are members
\* of some room
C34_RegistryConsistent ==
    (Quiet /\ QuietAll) =>
        /\ \A r \in DOMAIN manager.rooms : manager.rooms[r] # {}
        /\ \A c \in Members(manager) :
              /\ c \in Range(manager.active_connections)
              /\ c \in DOMAIN manager.connection_usernames
        /\ GetConnectionCount(manager) = Cardinality(Members(manager))

\* the step in which the handler of line 239 runs: disconnect, and the
\* leave event built around the username it returns
Leaves(w) == sess[w].pc # "leave" /\ sess[w]'.pc = "leave"

\* the user that leave event names
DisconnectedUser(w) == Disconnect(manager, w, sess[w].room_id).username

C35_LeaveStep ==
    \A w \in Conns : Leaves(w) => DisconnectedUser(w) = sess[w].username

\* C35: the leave event of a session names the user the session
\* authenticated as, also when a broadcast_to_room call had taken the
\* connection out of the registry before
C35_LeaveNamesUser == [][C35_LeaveStep]_vars


\* the frames of clients whose content the classifier finds toxic, of a
\* length Message allows and of lengths it refuses
ToxicFrames ==
    {[Chat(TRUE) EXCEPT !.len = n] : n \in {MinContent, MaxContent + 1}}
    \cup {[Chat(TRUE) EXCEPT !.kind = "nocontent"]}

\* the sessions on transports that stay up, the clients sending toxic frames
NotifyNext ==
    \/ \E w \in LoopConns :
          \/ \E p \in ToxicFrames : HReceivePayload(w, p)
          \/ HAfterCheck(w) \/ HUnmutedRoom(w) \/ HAfterUnmuted(w)
          \/ HRejected(w)
          \/ HAfterProcess(w) \/ HSaved(w) \/ HAfterChat(w)
          \/ HWarned(w) \/ HMutedRoom(w) \/ HAfterMuted(w)
          \/ HErrorSent(w)
          \/ CSelect(w) \/ CCommit(w)
          \/ PSelect(w) \/ PCommit(w) \/ PRefresh(w)
          \/ BResume(w)
    \/ LoopTick

SpecNotify == InitActive /\ [][NotifyNext]_vars

\* process_message_toxicity has committed a warning or a mute for the
\* payload the session is on
Sanctioned(w) ==
    Accepted(w) /\ call[w].result.action \in {"warning", "muted"}

\* C36: when the body of a payload for which process_message_toxicity
\* committed a warning or a mute is over, the payload's chat event was
\* broadcast and the sender got the warning, or the muted event followed by
\* the muted notice of the room
C36_ChangeNotified ==
    \A w \in Conns :
        (IterationOver(w) /\ Sanctioned(w)) =>
            /\ <<"broadcast", "chat">> \in Range(trace[w].ops)
            /\ call[w].result.action \in Range(trace[w].got)
            /\ call[w].result.action = "muted" =>
                   <<"broadcast", "muted">> \in Range(trace[w].ops)


(* mute.py 192-202, 321-324: the storage raises inside a service call *)

\* 321-324: an await of process_message_toxicity on the session raises (the
\* selects, the flush of a new row, the commit of line 297 or the refresh of
\* line 298): logger.error, await session.rollback(), which discards what
\* is not committed, and {"action": "none", "error": ...}
PFails(w) ==
    LET c == call[w]
        rec == Rec(c.user, c.room)
    IN  /\ c.pc \in {"p_select", "p_commit", "p_refresh"}
        /\ Finish(w, ProcessError)
        /\ NoteProcess(c, IF c.pc = "p_select" THEN rec ELSE c.loaded, rec,
                       "none")
        /\ trace' = [trace EXCEPT
                        ![w].ops =
                            Append(@, <<"log", "process_message_toxicity">>)]
        /\ UNCHANGED <<user_mutes, now, ncalls, rec0, checks, manager, ws,
                       inbox, bc, nev, sess, npay, http, store>>

\* 192-202: an await of check_mute_status on the session raises (the
\* selects or the commit of line 172): logger.error and the default
\* snapshot; the session closes without a commit
CFails(w) ==
    LET c == call[w]
        rec == Rec(c.user, c.room)
    IN  /\ c.pc \in {"c_select", "c_commit"}
        /\ Finish(w, CheckDefault)
        /\ NoteCheck(c, now, rec, rec, CheckDefault)
        /\ trace' = [trace EXCEPT
                        ![w].ops = Append(@, <<"log", "check_mute_status">>)]
        /\ UNCHANGED <<user_mutes, now, ncalls, rec0, manager, ws, inbox, bc,
                       nev, sess, npay, http, store>>

\* the sessions on transports that stay up, over a database that may raise
\* at any await of the mute service
FaultNext ==
    \/ \E w \in LoopConns :
          \/ \E toxic \in BOOLEAN : HReceive(w, toxic)
          \/ HAfterCheck(w) \/ HUnmutedRoom(w) \/ HAfterUnmuted(w)
          \/ HRejected(w)
          \/ HAfterProcess(w) \/ HSaved(w) \/ HAfterChat(w)
          \/ HWarned(w) \/ HMutedRoom(w) \/ HAfterMuted(w)
          \/ CSelect(w) \/ CCommit(w) \/ CFails(w)
          \/ PSelect(w) \/ PCommit(w) \/ PRefresh(w) \/ PFails(w)
          \/ BResume(w)
    \/ LoopTick

SpecFault == InitActive /\ [][FaultNext]_vars

\* the service call of a session's payload has logged a storage error
Logged(w, name) == <<"log", name>> \in Range(trace[w].ops)

\* the step in which a service call of the session fails
Fails(w, name) == ~Logged(w, name) /\ Logged(w, name)'

\* line 297 of the call has returned: its changes are in the table
PastCommit(c) == c.pc = "p_refresh"

\* a failing call writes nothing, and has written nothing: the table is
\* without any change of the call
C37_FailStep ==
    \A w \in Conns :
        /\ Fails(w, "process_message_toxicity") =>
              /\ user_mutes' = user_mutes
              /\ ~PastCommit(call[w])
              /\ call[w]'.result.action = "none"
        /\ Fails(w, "check_mute_status") =>
              /\ user_mutes' = user_mutes
              /\ ~call[w]'.result.is_muted
              /\ ~call[w]'.result.just_unmuted

\* no exception reaches the session, and after a failed check the payload
\* goes on to the classifier and process_message_toxicity, with neither an
\* unmuted notice nor a rejection
C37_SessionGoesOn ==
    \A w \in Conns :
        /\ (Logged(w, "check_mute_status")
               \/ Logged(w, "process_message_toxicity")) =>
              /\ sess[w].pc # "crashed"
              /\ \A i \in DOMAIN trace[w].ops : trace[w].ops[i][1] # "raise"
        /\ (Logged(w, "check_mute_status") /\ IterationOver(w)) =>
              /\ Accepted(w)
              /\ trace[w].got \in {<<>>, <<"warning">>, <<"muted">>}

\* C37: a storage error inside process_message_toxicity or check_mute_status
\* does not reach the session and leaves no change of the failing call in
\* the table: the failing process call returns action none with the record
\* as it was, the failing check returns is_muted = false and just_unmuted =
\* false, and the payload is then processed as that of an unmuted user
C37_StorageErrors == [][C37_FailStep]_vars /\ [] C37_SessionGoesOn


\* the request of the task is a delete request that was answered `status`
Deleted(t, status) ==
    /\ http[t].route = "delete" /\ http[t].pc = "done"
    /\ http[t].status = status

\* the rows the request's id named when the requests came in
Named(t) == {m \in StoredMessages : m.id = http[t].message_id}

\* C38: when a delete request has been answered 204 the message is out of
\* storage and the request's one delete event went to the room of the
\* message, to each of its members; a request that names no message is
\* answered 403 and broadcasts nothing
C38_DeleteReachesRoom ==
    \A t \in Tasks :
        /\ Deleted(t, 204) =>
              /\ MessagesById(store, http[t].message_id) = {}
              /\ bc[t].ev.type = "delete"
              /\ \A m \in Named(t) :
                    /\ bc[t].room_id = m.room_id
                    /\ \A c \in RoomsMembers(manager, m.room_id) :
                          bc[t].ev \in Range(inbox[c])
        /\ (http[t].route = "delete" /\ http[t].pc = "done"
               /\ Named(t) = {}) =>
              /\ http[t].status = 403
              /\ bc[t] = NoBroadcast

\* the part of C38 on what leaves storage and on the request that names no
\* message
C38_DeleteStored ==
    \A t \in Tasks :
        /\ Deleted(t, 204) =>
              /\ MessagesById(store, http[t].message_id) = {}
              /\ bc[t].ev.type = "delete"
              /\ bc[t].pc = "done"
        /\ (http[t].route = "delete" /\ http[t].pc = "done"
               /\ Named(t) = {}) =>
              /\ http[t].status = 403
              /\ bc[t] = NoBroadcast


\* the session of alice, on a transport that stays up, the other member
\* listening, and the request of the room's creator to unmute alice
ManualNext ==
    \/ \E w \in {"w1"} :
          \/ \E toxic \in BOOLEAN : HReceive(w, toxic)
          \/ HAfterCheck(w) \/ HUnmutedRoom(w) \/ HAfterUnmuted(w)
          \/ HRejected(w)
          \/ HAfterProcess(w) \/ HSaved(w) \/ HAfterChat(w)
          \/ HWarned(w) \/ HMutedRoom(w) \/ HAfterMuted(w)
          \/ CSelect(w) \/ CCommit(w)
          \/ PSelect(w) \/ PCommit(w) \/ PRefresh(w)
          \/ BResume(w)
    \/ \E t \in SeqTasks :
          \/ RUnmute(t, RoomCreator["general"], "general", "alice")
          \/ RGotRoom(t) \/ RAfterUnmute(t) \/ RAfterBroadcast(t)
          \/ USelect(t) \/ UCommit(t)
          \/ BResume(t)
    \/ LoopTick

SpecManual == InitActive /\ [][ManualNext]_vars


\* the unmute request of task t, whose unmute_user call returned True
ManualUnmute(t) ==
    /\ http[t].route = "unmute"
    /\ call[t].pc = "done" /\ call[t].result = UnmuteResult(TRUE)

\* how often an event is in the inbox of a connection
Copies(c, ev) == Cardinality({i \in DOMAIN inbox[c] : inbox[c][i] = ev})

\* when the request is answered, the answer is 200 and each member of the
\* room has got the request's unmuted event, once
C39_OneUnmutedEvent ==
    \A t \in Tasks :
        (ManualUnmute(t) /\ http[t].pc = "done") =>
            /\ http[t].status = 200
            /\ bc[t].pc = "done"
            /\ bc[t].ev.type = "unmuted"
            /\ bc[t].ev.room_id = http[t].room_id
            /\ \A c \in RoomsMembers(manager, http[t].room_id) :
                  Copies(c, bc[t].ev) = 1

\* the check of the first payload the user sends after the unmute returned
\* neither finds a mute nor reports an expiry
C39_NextCheck ==
    \A w \in Conns :
        (trace[w].since = 1 /\ sess[w].pc # "check") =>
            /\ ~ trace[w].muted
            /\ <<"send", "unmuted">> \notin Range(trace[w].ops)
            /\ <<"send", "mute_rejected">> \notin Range(trace[w].ops)

\* a check_mute_status call of the session commits in this step
CheckCommits(w) == call[w].pc = "c_commit" /\ call[w]'.pc = "done"

\* the call of the session and the unmute of the task are about one mute of
\* one key
SameMute(w, t) ==
    /\ Key(call[w]) = Key(call[t])
    /\ call[w].loaded.muted_at = call[t].loaded.muted_at

\* no check reports the expiry of a mute that a manual unmute has lifted
C39_NoExpiryStep ==
    \A w \in Conns : \A t \in Tasks :
        (CheckCommits(w) /\ ManualUnmute(t) /\ SameMute(w, t)) =>
            ~ call[w]'.result.just_unmuted

====
